---- MODULE Spec2Model ----
(***************************************************************************)
(* MTG proxy forge: the card-list parser of the page (src/app/page.tsx),   *)
(* the live preview of the page and the POST handler of the PDF route      *)
(* (src/app/api/generate-pdf/route.ts).                                    *)
(*                                                                         *)
(* A JavaScript string is a sequence of one-character strings; the value   *)
(* undefined is the one-element sequence Undefined, which is no string.    *)
(***************************************************************************)
EXTENDS Integers, Sequences, FiniteSets, TLC

(***************************************************************************)
(* Bounds of the model.                                                    *)
(***************************************************************************)
MaxLines == 2
MaxNow == 1
MaxCards == 2
MaxQty == 2
MaxInstances == 19
MaxLiveCards == 1
MaxFaces == 2
MaxTwinInstances == 10
MaxTyped == 2
MaxInputChanges == 2

(***************************************************************************)
(* Characters and character classes of the regular expressions.            *)
(***************************************************************************)
Undefined == <<"undefined">>

LowerLetters ==
    <<"a", "b", "c", "d", "e", "f", "g", "h", "i", "j", "k", "l", "m",
      "n", "o", "p", "q", "r", "s", "t", "u", "v", "w", "x", "y", "z">>

UpperLetters ==
    <<"A", "B", "C", "D", "E", "F", "G", "H", "I", "J", "K", "L", "M",
      "N", "O", "P", "Q", "R", "S", "T", "U", "V", "W", "X", "Y", "Z">>

DigitChars == <<"0", "1", "2", "3", "4", "5", "6", "7", "8", "9">>

Range(s) == {s[i] : i \in 1..Len(s)}

\* \d
IsDigit(c) == c \in Range(DigitChars)

\* \s (and the characters String.prototype.trim removes)
IsSpace(c) == c \in {" ", "\t", "\n", "\r", "\f"}

\* \w, the class that decides \b
IsWordChar(c) == c \in Range(LowerLetters) \cup Range(UpperLetters) \cup Range(DigitChars) \cup {"_"}

\* [A-Z0-9] under the i flag
IsSetCodeChar(c) == c \in Range(UpperLetters) \cup Range(LowerLetters) \cup Range(DigitChars)

\* . (no s flag): anything but a line terminator
IsDot(c) == c \notin {"\n", "\r"}

\* every character of s[from..to] satisfies the class
AllDigits(s, from, to) == \A k \in from..to : IsDigit(s[k])
AllSpaces(s, from, to) == \A k \in from..to : IsSpace(s[k])
AllSetCode(s, from, to) == \A k \in from..to : IsSetCodeChar(s[k])
AllDots(s, from, to) == \A k \in from..to : IsDot(s[k])

Max(S) == CHOOSE x \in S : \A y \in S : y <= x
Min(S) == CHOOSE x \in S : \A y \in S : x <= y

(***************************************************************************)
(* String primitives.                                                      *)
(***************************************************************************)
IndexOf(c, alphabet) == CHOOSE i \in 1..Len(alphabet) : alphabet[i] = c

UpperChar(c) == IF c \in Range(LowerLetters) THEN UpperLetters[IndexOf(c, LowerLetters)] ELSE c
LowerChar(c) == IF c \in Range(UpperLetters) THEN LowerLetters[IndexOf(c, UpperLetters)] ELSE c

\* String.prototype.toUpperCase / toLowerCase
toUpperCase(s) == [i \in 1..Len(s) |-> UpperChar(s[i])]
toLowerCase(s) == [i \in 1..Len(s) |-> LowerChar(s[i])]

\* String.prototype.trim
trim(s) ==
    LET keep == {i \in 1..Len(s) : ~IsSpace(s[i])}
    IN  IF keep = {} THEN <<>> ELSE SubSeq(s, Min(keep), Max(keep))

\* String.prototype.split("\n"): the pieces between the line feeds
RECURSIVE split(_)
split(s) ==
    LET nl == {i \in 1..Len(s) : s[i] = "\n"}
    IN  IF nl = {} THEN <<s>>
        ELSE <<SubSeq(s, 1, Min(nl) - 1)>> \o split(SubSeq(s, Min(nl) + 1, Len(s)))

RECURSIVE Join(_, _)
Join(lines, sep) ==
    IF lines = <<>> THEN <<>>
    ELSE IF Len(lines) = 1 THEN lines[1]
    ELSE lines[1] \o sep \o Join(Tail(lines), sep)

\* Number.parseInt of a string of decimal digits
RECURSIVE parseInt(_)
parseInt(ds) ==
    IF ds = <<>> THEN 0
    ELSE 10 * parseInt(SubSeq(ds, 1, Len(ds) - 1)) + (IndexOf(ds[Len(ds)], DigitChars) - 1)

\* the decimal digits of a natural number, as a template literal prints it
RECURSIVE ToStr(_)
ToStr(n) ==
    IF n < 10 THEN <<DigitChars[n + 1]>>
    ELSE ToStr(n \div 10) \o <<DigitChars[(n % 10) + 1]>>

(***************************************************************************)
(* parseInput, step 1: line.replace(/\bF\s+/g, "").                        *)
(***************************************************************************)
\* \b holds before position i, which holds the word character F
BoundaryBefore(s, i) == i = 1 \/ ~IsWordChar(s[i - 1])

\* /\bF\s+/ matches at position i
FoilAt(s, i) ==
    /\ i + 1 <= Len(s)
    /\ s[i] = "F"
    /\ BoundaryBefore(s, i)
    /\ IsSpace(s[i + 1])

\* the end (exclusive) of the match at i: \s+ is greedy and nothing follows it
FoilEnd(s, i) == Min({j \in (i + 2)..(Len(s) + 1) : j = Len(s) + 1 \/ ~IsSpace(s[j])})

\* the global replace from position i on, reading the original string
RECURSIVE StripFoilFrom(_, _)
StripFoilFrom(s, i) ==
    IF i > Len(s) THEN <<>>
    ELSE IF FoilAt(s, i) THEN StripFoilFrom(s, FoilEnd(s, i))
    ELSE <<s[i]>> \o StripFoilFrom(s, i + 1)

StripFoil(s) == StripFoilFrom(s, 1)

(***************************************************************************)
(* parseInput, step 2: cleanLine.replace(/$$([^)]+)$$/g, "[$1]").          *)
(* The pattern is: end of input, end of input, one or more characters      *)
(* other than ")", end of input, end of input.                             *)
(***************************************************************************)
\* the assertion $ (no m flag) at position i
AtEnd(s, i) == i = Len(s) + 1

\* the ends (exclusive) of the matches of the pattern at position i
ParenEnds(s, i) ==
    {j \in (i + 1)..(Len(s) + 1) :
        /\ AtEnd(s, i)
        /\ \A k \in i..(j - 1) : s[k] # ")"
        /\ AtEnd(s, j)}

RECURSIVE ParenToBracketFrom(_, _)
ParenToBracketFrom(s, i) ==
    IF i > Len(s) THEN <<>>
    ELSE IF ParenEnds(s, i) # {}
         THEN LET j == Max(ParenEnds(s, i))
              IN  <<"[">> \o SubSeq(s, i, j - 1) \o <<"]">> \o ParenToBracketFrom(s, j)
    ELSE <<s[i]>> \o ParenToBracketFrom(s, i + 1)

ParenToBracket(s) == ParenToBracketFrom(s, 1)

(***************************************************************************)
(* parseInput, step 3: the match of                                        *)
(*   /^(\d+)\s+(.+?)(?:\s+\[([A-Z0-9]+)\])?(?:\s+(\d+))?$/i                *)
(* in the order a backtracking matcher tries the alternatives: a greedy    *)
(* quantifier takes the longest run that lets the rest match, the lazy     *)
(* name the shortest, an optional group is taken when it can be.           *)
(***************************************************************************)
NoMatch == [ok |-> FALSE]

\* (?:\s+(\d+))?$ from position p: the ends (exclusive) of \s+ with which
\* the group and $ match
NumberSpaceEnds(s, p) ==
    {e \in (p + 1)..Len(s) :
        /\ AllSpaces(s, p, e - 1)
        /\ AllDigits(s, e, Len(s))}

NumberTail(s, p) ==
    IF NumberSpaceEnds(s, p) # {}
    THEN [ok |-> TRUE, cardNumber |-> SubSeq(s, Max(NumberSpaceEnds(s, p)), Len(s))]
    ELSE IF AtEnd(s, p) THEN [ok |-> TRUE, cardNumber |-> Undefined]
    ELSE NoMatch

\* (?:\s+\[([A-Z0-9]+)\])? from position p: the pairs <<start of "[",
\* position of "]">> with which the group and the rest of the pattern match
SetCodeSpans(s, p) ==
    {be \in ((p + 1)..Len(s)) \X ((p + 3)..Len(s)) :
        /\ be[1] + 2 <= be[2]
        /\ AllSpaces(s, p, be[1] - 1)
        /\ s[be[1]] = "["
        /\ AllSetCode(s, be[1] + 1, be[2] - 1)
        /\ s[be[2]] = "]"
        /\ NumberTail(s, be[2] + 1).ok}

\* the span the matcher reaches first: the longest \s+, then the longest code
FirstSetCodeSpan(s, p) ==
    CHOOSE be \in SetCodeSpans(s, p) :
        \A o \in SetCodeSpans(s, p) :
            \/ o[1] < be[1]
            \/ (o[1] = be[1] /\ o[2] <= be[2])

SetCodeTail(s, p) ==
    IF SetCodeSpans(s, p) # {}
    THEN LET be == FirstSetCodeSpan(s, p)
         IN  [ok |-> TRUE,
              setCode |-> SubSeq(s, be[1] + 1, be[2] - 1),
              cardNumber |-> NumberTail(s, be[2] + 1).cardNumber]
    ELSE IF NumberTail(s, p).ok
         THEN [ok |-> TRUE, setCode |-> Undefined, cardNumber |-> NumberTail(s, p).cardNumber]
    ELSE NoMatch

\* (.+?) from position p: the ends (exclusive) of the name with which the
\* rest of the pattern matches; the matcher takes the smallest
NameEnds(s, p) ==
    {e \in (p + 1)..(Len(s) + 1) : AllDots(s, p, e - 1) /\ SetCodeTail(s, e).ok}

\* \s+ from position p: the ends (exclusive) of the white space with which
\* the rest matches; the matcher takes the largest
SpaceEnds(s, p) ==
    {e \in (p + 1)..(Len(s) + 1) : AllSpaces(s, p, e - 1) /\ NameEnds(s, e) # {}}

\* ^(\d+): the ends (exclusive) of the quantity with which the rest matches
QuantityEnds(s) ==
    {e \in 2..(Len(s) + 1) : AllDigits(s, 1, e - 1) /\ SpaceEnds(s, e) # {}}

\* MatchLine with the name matched greedily, (.+) for (.+?)
MatchLineGreedyName(s) ==
    IF QuantityEnds(s) = {} THEN NoMatch
    ELSE LET q == Max(QuantityEnds(s))
             w == Max(SpaceEnds(s, q))
             n == Max(NameEnds(s, w))
             t == SetCodeTail(s, n)
         IN  [ok |-> TRUE,
              g1 |-> SubSeq(s, 1, q - 1),
              g2 |-> SubSeq(s, w, n - 1),
              g3 |-> t.setCode,
              g4 |-> t.cardNumber]

\* String.prototype.match with the pattern: the groups 1..4 of the match
MatchLine(s) ==
    IF QuantityEnds(s) = {} THEN NoMatch
    ELSE LET q == Max(QuantityEnds(s))
             w == Max(SpaceEnds(s, q))
             n == Min(NameEnds(s, w))
             t == SetCodeTail(s, n)
         IN  [ok |-> TRUE,
              g1 |-> SubSeq(s, 1, q - 1),
              g2 |-> SubSeq(s, w, n - 1),
              g3 |-> t.setCode,
              g4 |-> t.cardNumber]

(***************************************************************************)
(* parseInput of the page.                                                 *)
(***************************************************************************)
\* the id of an entry: `${name}-${i}-${Date.now()}`
EntryId(name, i, now) == name \o <<"-">> \o ToStr(i) \o <<"-">> \o ToStr(now)

\* EntryOfMatch with the guard quantity > 1 for quantity > 0
EntryOfMatchMoreThanOne(match, i, now) ==
    IF trim(match.g2) # <<>> /\ parseInt(match.g1) > 1
    THEN <<[quantity |-> parseInt(match.g1),
            name |-> trim(match.g2),
            setCode |-> IF match.g3 = Undefined THEN Undefined ELSE toUpperCase(match.g3),
            cardNumber |-> match.g4,
            id |-> EntryId(trim(match.g2), i, now)]>>
    ELSE <<>>

\* EntryOfMatch with the guard quantity >= 0 for quantity > 0
EntryOfMatchAcceptsZero(match, i, now) ==
    IF trim(match.g2) # <<>> /\ parseInt(match.g1) >= 0
    THEN <<[quantity |-> parseInt(match.g1),
            name |-> trim(match.g2),
            setCode |-> IF match.g3 = Undefined THEN Undefined ELSE toUpperCase(match.g3),
            cardNumber |-> match.g4,
            id |-> EntryId(trim(match.g2), i, now)]>>
    ELSE <<>>

\* the body of `if (match)`: the entries a match adds
EntryOfMatch(match, i, now) ==
    LET quantity == parseInt(match.g1)
        name == trim(match.g2)
        setCode == IF match.g3 = Undefined THEN Undefined ELSE toUpperCase(match.g3)
        cardNumber == match.g4
    IN  IF name # <<>> /\ quantity > 0
        THEN <<[quantity |-> quantity,
                name |-> name,
                setCode |-> setCode,
                cardNumber |-> cardNumber,
                id |-> EntryId(name, i, now)]>>
        ELSE <<>>

\* the body of the loop for lines[i + 1] (the code counts i from 0): the
\* entries the line adds
ParseLine(rawLine, i, now) ==
    LET line == trim(rawLine)
        cleanLine == ParenToBracket(StripFoil(line))
        match == MatchLine(cleanLine)
    IN  IF line = <<>> THEN <<>>
        ELSE IF ~match.ok THEN <<>>
        ELSE EntryOfMatch(match, i, now)

\* ParseLinesFrom with a loop that ends at the first line without an entry
RECURSIVE ParseLinesFromStopping(_, _, _)
ParseLinesFromStopping(lines, i, now) ==
    IF i >= Len(lines) THEN <<>>
    ELSE IF ParseLine(lines[i + 1], i, now) = <<>> THEN <<>>
    ELSE ParseLine(lines[i + 1], i, now) \o ParseLinesFromStopping(lines, i + 1, now)

\* the loop over lines[i + 1 ..]
RECURSIVE ParseLinesFrom(_, _, _)
ParseLinesFrom(lines, i, now) ==
    IF i >= Len(lines) THEN <<>>
    ELSE ParseLine(lines[i + 1], i, now) \o ParseLinesFrom(lines, i + 1, now)

parseInput(value, now) ==
    IF trim(value) = <<>> THEN <<>>
    ELSE ParseLinesFrom(split(trim(value)), 0, now)

(***************************************************************************)
(* The text rebuilt from an entry list (removeCard and saveEditCard).      *)
(***************************************************************************)
\* RebuildLine with the set code written without its brackets
RebuildLineBareSetCode(card) ==
    ToStr(card.quantity) \o <<" ">> \o card.name
        \o (IF card.setCode # Undefined THEN <<" ">> \o card.setCode ELSE <<>>)
        \o (IF card.cardNumber # Undefined THEN <<" ">> \o card.cardNumber ELSE <<>>)

RebuildLine(card) ==
    LET line0 == ToStr(card.quantity) \o <<" ">> \o card.name
        line1 == IF card.setCode # Undefined /\ card.setCode # <<>>
                 THEN line0 \o <<" ", "[">> \o card.setCode \o <<"]">>
                 ELSE line0
    IN  IF card.cardNumber # Undefined /\ card.cardNumber # <<>>
        THEN line1 \o <<" ">> \o card.cardNumber
        ELSE line1

RebuildInput(cardList) == Join([k \in 1..Len(cardList) |-> RebuildLine(cardList[k])], <<"\n">>)

(***************************************************************************)
(* The page with the editable card list (src/unnamed/part_001): its        *)
(* parseInput matches the trimmed line as it is, and saveEditCard matches  *)
(* the text of the edit box.                                               *)
(***************************************************************************)
ParseLineOfEditor(rawLine, i, now) ==
    LET line == trim(rawLine)
        match == MatchLine(line)
    IN  IF line = <<>> THEN <<>>
        ELSE IF ~match.ok THEN <<>>
        ELSE EntryOfMatch(match, i, now)

RECURSIVE ParseLinesOfEditorFrom(_, _, _)
ParseLinesOfEditorFrom(lines, i, now) ==
    IF i >= Len(lines) THEN <<>>
    ELSE ParseLineOfEditor(lines[i + 1], i, now) \o ParseLinesOfEditorFrom(lines, i + 1, now)

parseInputOfEditor(value, now) ==
    IF trim(value) = <<>> THEN <<>>
    ELSE ParseLinesOfEditorFrom(split(trim(value)), 0, now)

\* parsed.reduce((sum, card) => sum + card.quantity, 0)
RECURSIVE Total(_)
Total(cardList) == IF cardList = <<>> THEN 0 ELSE cardList[1].quantity + Total(Tail(cardList))

\* cards.filter((card) => card.id !== cardId)
RECURSIVE WithoutId(_, _)
WithoutId(cardList, cardId) ==
    IF cardList = <<>> THEN <<>>
    ELSE (IF cardList[1].id # cardId THEN <<cardList[1]>> ELSE <<>>) \o WithoutId(Tail(cardList), cardId)

\* cards.map((card) => card.id === cardId ? { ...card, quantity, name, setCode, cardNumber } : card)
WithEdit(cardList, cardId, match) ==
    [k \in 1..Len(cardList) |->
        IF cardList[k].id = cardId
        THEN [cardList[k] EXCEPT !.quantity = parseInt(match.g1),
                                 !.name = trim(match.g2),
                                 !.setCode = IF match.g3 = Undefined THEN Undefined ELSE toUpperCase(match.g3),
                                 !.cardNumber = match.g4]
        ELSE cardList[k]]

(***************************************************************************)
(* The input texts: one line put together from a quantity, a separator,    *)
(* an optional foil marker, a name, an optional set code and an optional   *)
(* collector number, well formed or not; and texts of several short lines. *)
(***************************************************************************)
QuantityParts == {<<"1">>, <<"2">>, <<"0">>, <<"1", "2">>, <<"-", "1">>, <<>>}
SeparatorParts == {<<" ">>, <<" ", "\t">>}
FoilParts == {<<>>, <<"F", " ">>}
NameParts ==
    {<<"a">>, <<"A", " ", "b">>, <<"a", " ", "7">>, <<"F">>,
     <<"a", "-", "F", " ", "b">>, <<"a", "F", " ", "b">>, <<"7">>}
SetCodeParts ==
    {<<>>, <<" ", "[", "A", "1", "]">>, <<" ", "(", "A", "1", ")">>,
     <<" ", "[", "a", "1", "]">>, <<"[", "A", "1", "]">>}
NumberParts == {<<>>, <<" ", "3">>, <<" ", " ", "1", "2">>}

OneLineTexts ==
    {q \o w \o f \o n \o c \o k :
        q \in QuantityParts, w \in SeparatorParts, f \in FoilParts,
        n \in NameParts, c \in SetCodeParts, k \in NumberParts}

ShortLines ==
    {<<"1", " ", "a">>, <<"0", " ", "a">>, <<"x", "x">>, <<>>,
     <<"2", " ", "F", " ", "b", " ", "[", "c", "]", " ", "7">>, <<" ", "1", " ", "a", " ", "7", "\r">>}

RECURSIVE LineLists(_)
LineLists(n) ==
    IF n = 0 THEN {<<>>}
    ELSE {<<l>> \o ls : l \in ShortLines, ls \in LineLists(n - 1)}

SeveralLineTexts == {Join(ls, <<"\n">>) : ls \in UNION {LineLists(n) : n \in 2..MaxLines}}

Texts == OneLineTexts \cup SeveralLineTexts

(***************************************************************************)
(* The lists the page can hold: parseInput applied to texts of up to       *)
(* MaxCards lines, each a quantity, a name, an optional set code and an    *)
(* optional collector number.                                              *)
(***************************************************************************)
OrderParts ==
    {[quantity |-> <<"1">>, cardNumber |-> <<>>],
     [quantity |-> ToStr(MaxQty), cardNumber |-> <<" ", "7">>]}
CardNameParts == {<<"a">>, <<"A">>, <<"a", "a">>}
CardSetParts == {<<>>, <<" ", "[", "A", "]">>}

CardLines ==
    {o.quantity \o <<" ">> \o n \o c \o o.cardNumber :
        o \in OrderParts, n \in CardNameParts, c \in CardSetParts}

RECURSIVE CardLineLists(_)
CardLineLists(n) ==
    IF n = 0 THEN {<<>>}
    ELSE {<<l>> \o ls : l \in CardLines, ls \in CardLineLists(n - 1)}

CardTexts == {Join(ls, <<"\n">>) : ls \in UNION {CardLineLists(n) : n \in 0..MaxCards}}

(***************************************************************************)
(* The lookup of a card image.                                             *)
(***************************************************************************)
Null == <<"null">>

\* the image the lookup service serves for the URL fetchCardImage requests:
\* /cards/named?exact=<name>, and &set=<set code in lower case> with a set code
ImageOf(cardName, setCode) ==
    <<"image">> \o cardName
        \o (IF setCode # Undefined /\ setCode # <<>> THEN <<"&set=">> \o toLowerCase(setCode) ELSE <<>>)

\* what becomes of a request to the lookup service: a card with an image,
\* a response that is not ok, a card without image, a request that throws
Replies == {"image", "not ok", "no image", "throws"}

\* fetchCardImage of the route: the image URL or null
RouteFetchResult(cardName, setCode, reply) ==
    IF reply = "image" THEN ImageOf(cardName, setCode) ELSE Null

\* fetchCardImage of the page: {name, imageUrl, error}
PageFetchResult(cardName, setCode, reply) ==
    [name |-> cardName,
     imageUrl |-> IF reply = "image" THEN ImageOf(cardName, setCode) ELSE Null,
     error |-> CASE reply = "image" -> Undefined
                 [] reply = "not ok" -> <<"Card not found">>
                 [] reply = "no image" -> <<"No image available">>
                 [] OTHER -> <<"Failed to fetch">>]

\* how a lookup of the preview ends: fetchCardImage returns, or the 5 s
\* timer of the race rejects first
PreviewOutcomes == Replies \cup {"timeout"}

(***************************************************************************)
(* The payload of the lookup service and what fetchCardImage picks of it.  *)
(***************************************************************************)
\* the image URLs of a payload; "" is a string that is not truthy
FaceUrls == {<<"face0.normal">>, <<"face1.normal">>}
FlatUrl == <<"image_uris.normal">>
Truthy(v) == v # Undefined /\ v # Null /\ v # <<>>

\* image_uris?.normal of a face: undefined, "" or a URL
FaceImages == {Undefined, <<>>} \cup FaceUrls

\* card_faces: the normal image of each face, of up to MaxFaces faces
FaceLists == UNION {[1..n -> FaceImages] : n \in 0..MaxFaces}

\* CardData: card_faces present or not, image_uris?.normal undefined, "" or a URL
CardDatas ==
    [hasFaces : {TRUE}, card_faces : FaceLists, image_uris : {Undefined, <<>>, FlatUrl}]
        \cup [hasFaces : {FALSE}, card_faces : {<<>>}, image_uris : {Undefined, <<>>, FlatUrl}]

\* what fetch and response.json() give: the request throws, the response is
\* not ok, or the response carries a payload
FetchOutcomes == [reply : {"ok", "not ok", "throws"}, cardData : CardDatas]

\* cardData.card_faces && cardData.card_faces[0]?.image_uris?.normal
FirstFaceHasImage(cardData) ==
    /\ cardData.hasFaces
    /\ Len(cardData.card_faces) >= 1
    /\ Truthy(cardData.card_faces[1])

\* fetchCardImage of the route
fetchCardImage(outcome) ==
    IF outcome.reply # "ok" THEN Null
    ELSE IF FirstFaceHasImage(outcome.cardData) THEN outcome.cardData.card_faces[1]
    ELSE IF Truthy(outcome.cardData.image_uris) THEN outcome.cardData.image_uris
    ELSE Null

\* fetchCardImage of the earlier route of the same file: in the branch of the
\* faces it reads cardData.card_faces.image_uris.normal; an array has no
\* image_uris, reading normal of undefined throws a TypeError, and the catch
\* returns null
fetchCardImageEarlier(outcome) ==
    IF outcome.reply # "ok" THEN Null
    ELSE IF FirstFaceHasImage(outcome.cardData) THEN Null
    ELSE IF Truthy(outcome.cardData.image_uris) THEN outcome.cardData.image_uris
    ELSE Null

\* { imageUrl, success: !!imageUrl } of the callback of the route
Resolved(imageUrl) == [imageUrl |-> imageUrl, success |-> Truthy(imageUrl)]

(***************************************************************************)
(* Deduplication.                                                          *)
(***************************************************************************)
\* c.setCode || "" and card.setCode ?? ""
SetCodeOrEmpty(setCode) == IF setCode = Undefined THEN <<>> ELSE setCode

\* a key that keeps the case of the name and of the set code
CardKeyCaseSensitive(c) == c.name \o SetCodeOrEmpty(c.setCode)

\* the key of the route: (c.name + (c.setCode || "")).toLowerCase()
CardKey(c) == toLowerCase(c.name \o SetCodeOrEmpty(c.setCode))

\* the key of the preview: (card.name + (card.setCode ?? "")).toLowerCase()
PreviewKey(card) == toLowerCase(card.name \o SetCodeOrEmpty(card.setCode))

\* the route's Map uniq, as Array.from(uniq.values()): a key keeps the
\* position and the value of its first card
RECURSIVE UniqFrom(_, _)
UniqFrom(cardList, seen) ==
    IF cardList = <<>> THEN <<>>
    ELSE IF CardKey(cardList[1]) \in seen THEN UniqFrom(Tail(cardList), seen)
    ELSE <<[name |-> cardList[1].name, setCode |-> cardList[1].setCode]>>
            \o UniqFrom(Tail(cardList), seen \cup {CardKey(cardList[1])})

\* a list that keeps every card of the request
RECURSIVE UniqueCardsEveryCard(_)
UniqueCardsEveryCard(cardList) ==
    IF cardList = <<>> THEN <<>>
    ELSE <<[name |-> cardList[1].name, setCode |-> cardList[1].setCode]>>
            \o UniqueCardsEveryCard(Tail(cardList))

UniqueCards(cardList) == UniqFrom(cardList, {})

\* the preview's object uniqueCards, as Object.values(uniqueCards): a key
\* keeps the position of its first card and the value of its last
LastWithKey(cardList, key) == cardList[Max({k \in 1..Len(cardList) : PreviewKey(cardList[k]) = key})]

RECURSIVE PreviewUniqFrom(_, _, _)
PreviewUniqFrom(cardList, k, seen) ==
    IF k > Len(cardList) THEN <<>>
    ELSE IF PreviewKey(cardList[k]) \in seen THEN PreviewUniqFrom(cardList, k + 1, seen)
    ELSE LET last == LastWithKey(cardList, PreviewKey(cardList[k]))
         IN  <<[name |-> last.name, setCode |-> last.setCode]>>
                \o PreviewUniqFrom(cardList, k + 1, seen \cup {PreviewKey(cardList[k])})

PreviewUniqueCards(cardList) == PreviewUniqFrom(cardList, 1, {})

(***************************************************************************)
(* Composition.                                                            *)
(***************************************************************************)
\* imageMap of the route: images.forEach(... imageMap.set(key, ...))
RouteImageMap(images) ==
    [key \in {images[k].key : k \in DOMAIN images} |->
        LET last == images[Max({k \in DOMAIN images : images[k].key = key})]
        IN  [imageUrl |-> last.imageUrl, success |-> last.success]]

\* one copy whatever the quantity
CopiesOnce(item, n) == IF n <= 0 THEN <<>> ELSE <<item>>

\* the copies the route pushes for one card
RECURSIVE Copies(_, _)
Copies(item, n) == IF n <= 0 THEN <<>> ELSE <<item>> \o Copies(item, n - 1)

\* an instance that takes the image of an absent key from the name of the card
ProcessedOfAbsentGuessed(c, map) ==
    LET known == CardKey(c) \in DOMAIN map
    IN  [name |-> c.name,
         imageUrl |-> IF known THEN map[CardKey(c)].imageUrl ELSE ImageOf(c.name, c.setCode),
         setCode |-> c.setCode,
         success |-> IF known THEN map[CardKey(c)].success ELSE FALSE]

\* { name, imageUrl: img?.imageUrl || null, setCode, success: img?.success || false }
ProcessedOf(c, map) ==
    LET known == CardKey(c) \in DOMAIN map
    IN  [name |-> c.name,
         imageUrl |-> IF known /\ Truthy(map[CardKey(c)].imageUrl) THEN map[CardKey(c)].imageUrl ELSE Null,
         setCode |-> c.setCode,
         success |-> IF known THEN map[CardKey(c)].success ELSE FALSE]

\* an expansion that leaves out the cards whose lookup failed
RECURSIVE ExpandSkipFailed(_, _)
ExpandSkipFailed(cardList, map) ==
    IF cardList = <<>> THEN <<>>
    ELSE (IF ProcessedOf(cardList[1], map).success
          THEN Copies(ProcessedOf(cardList[1], map), cardList[1].quantity) ELSE <<>>)
            \o ExpandSkipFailed(Tail(cardList), map)

\* the loop "Expand by quantity"
RECURSIVE Expand(_, _)
Expand(cardList, map) ==
    IF cardList = <<>> THEN <<>>
    ELSE Copies(ProcessedOf(cardList[1], map), cardList[1].quantity) \o Expand(Tail(cardList), map)

\* imageMap of the preview: imageResults.forEach((res) => imageMap[res.key] = res)
PreviewImageMap(results) ==
    [key \in {results[k].key : k \in 1..Len(results)} |->
        results[Max({k \in 1..Len(results) : results[k].key = key})]]

PreviewOf(card, map) ==
    IF PreviewKey(card) \in DOMAIN map
    THEN map[PreviewKey(card)]
    ELSE [name |-> card.name, imageUrl |-> Null, error |-> <<"No image found">>]

\* the loop that fills fullPreview
RECURSIVE FullPreview(_, _)
FullPreview(cardList, map) ==
    IF cardList = <<>> THEN <<>>
    ELSE Copies(PreviewOf(cardList[1], map), cardList[1].quantity) \o FullPreview(Tail(cardList), map)

(***************************************************************************)
(* Geometry of the document.  Lengths are in units of 1/1270 pt, in which  *)
(* every constant of the route, the 0.2 mm gap included, is an integer.    *)
(***************************************************************************)
PT == 1270
\* IN of the route (a reserved word here): 72 pt
INCH == 72 * PT

PAGE_L == [w |-> 11 * INCH, h |-> (85 * INCH) \div 10]
PAGE_P == [w |-> (85 * INCH) \div 10, h |-> 11 * INCH]

CARD_W == (25 * INCH) \div 10
CARD_H == (35 * INCH) \div 10
GAP_X == INCH
GAP_Y == (5 * INCH) \div 10
M_L == (75 * INCH) \div 100
M_T == (5 * INCH) \div 10

BLEED_IN == INCH \div 10

\* 72 / 25.4 pt
MM == (72 * PT * 10) \div 254
SC_GAP == (2 * MM) \div 10
SC_COLS == 3
SC_ROWS == 3

Layouts == {"self-cut", "avery"}

\* the styles of createStyles that carry geometry
createStyles(layout) ==
    [page |-> IF layout = "avery" THEN [width |-> PAGE_L.w, height |-> PAGE_L.h]
                                  ELSE [width |-> PAGE_P.w, height |-> PAGE_P.h],
     cardMask |-> [width |-> CARD_W, height |-> CARD_H],
     bleedRect |-> [width |-> CARD_W + 2 * BLEED_IN, height |-> CARD_H + 2 * BLEED_IN],
     selfCutMask |-> [width |-> CARD_W, height |-> CARD_H]]

\* slots that start at half the left margin
averyLeftHalfMargin(col) == M_L \div 2 + col * (CARD_W + GAP_X)

averyLeft(col) == M_L + col * (CARD_W + GAP_X)
\* rows closer than a card is high
averyTopOverlapping(row) == M_T + row * (CARD_H - GAP_Y)

averyTop(row) == M_T + row * (CARD_H + GAP_Y)

\* XS and YS are indexed from 1 here: XS[col + 1], YS[row + 1]
selfCutGrid ==
    LET totalW == SC_COLS * CARD_W + (SC_COLS - 1) * SC_GAP
        totalH == SC_ROWS * CARD_H + (SC_ROWS - 1) * SC_GAP
        startX == (PAGE_P.w - totalW) \div 2
        startY == (PAGE_P.h - totalH) \div 2
    IN  [XS |-> [c \in 1..SC_COLS |-> startX + (c - 1) * (CARD_W + SC_GAP)],
         YS |-> [r \in 1..SC_ROWS |-> startY + (r - 1) * (CARD_H + SC_GAP)]]

\* a rectangle that is not drawn
NoRect == [drawn |-> FALSE, left |-> 0, top |-> 0, width |-> 0, height |-> 0]

Rect(left, top, style) ==
    [drawn |-> TRUE, left |-> left, top |-> top, width |-> style.width, height |-> style.height]

\* what fills the mask: the image, or the placeholder with the name, the
\* error text and the set code text
ContentOf(card) ==
    IF card.imageUrl # Null /\ card.success
    THEN [kind |-> "image", src |-> card.imageUrl, name |-> Undefined,
          errorText |-> Undefined, setCodeText |-> Undefined]
    ELSE [kind |-> "placeholder", src |-> Null, name |-> card.name,
          errorText |-> IF card.success = FALSE THEN <<"(Error loading)">> ELSE <<"(Image not found)">>,
          setCodeText |-> IF card.setCode # Undefined /\ card.setCode # <<>>
                          THEN <<"[">> \o toUpperCase(card.setCode) \o <<"]">> ELSE Undefined]

\* a bleed rectangle displaced sideways instead of outwards
CardElBleedInside(params) ==
    [key |-> params.key, card |-> params.card,
     bleed |-> IF params.layout = "avery" /\ params.enableBleed
               THEN Rect(params.left, params.top, createStyles(params.layout).bleedRect)
               ELSE NoRect,
     mask |-> Rect(params.left, params.top, createStyles(params.layout).cardMask),
     content |-> ContentOf(params.card)]

\* CardEl: the bleed rectangle (avery with bleed only), the mask and its content
CardEl(params) ==
    IF params.layout = "avery"
    THEN [key |-> params.key, card |-> params.card,
          bleed |-> IF params.enableBleed
                    THEN Rect(params.left - BLEED_IN, params.top - BLEED_IN,
                              createStyles(params.layout).bleedRect)
                    ELSE NoRect,
          mask |-> Rect(params.left, params.top, createStyles(params.layout).cardMask),
          content |-> ContentOf(params.card)]
    ELSE [key |-> params.key, card |-> params.card,
          bleed |-> NoRect,
          mask |-> Rect(params.left, params.top, createStyles(params.layout).selfCutMask),
          content |-> ContentOf(params.card)]

\* slices of one card less than the capacity
RECURSIVE SlicesShort(_, _)
SlicesShort(cardList, perPage) ==
    IF cardList = <<>> THEN <<>>
    ELSE <<SubSeq(cardList, 1, Min({perPage - 1, Len(cardList)}))>>
            \o SlicesShort(SubSeq(cardList, Min({perPage - 1, Len(cardList)}) + 1, Len(cardList)), perPage)

\* for (let i = 0; i < cards.length; i += perPage) pages.push(cards.slice(i, i + perPage))
RECURSIVE Slices(_, _)
Slices(cardList, perPage) ==
    IF cardList = <<>> THEN <<>>
    ELSE <<SubSeq(cardList, 1, Min({perPage, Len(cardList)}))>>
            \o Slices(SubSeq(cardList, Min({perPage, Len(cardList)}) + 1, Len(cardList)), perPage)

\* a page whose slots move down with the page index and right under a placeholder
PageElByContent(pageCards, pageIndex, layout, enableBleed, XS, YS) ==
    [orientation |-> IF layout = "avery" THEN "landscape" ELSE "portrait",
     style |-> createStyles(layout).page,
     cards |-> [n \in 1..Len(pageCards) |->
                  LET idx == n - 1
                      row == idx \div 3
                      col == idx % 3
                  IN  CardEl([key |-> <<pageIndex, idx>>, card |-> pageCards[n], layout |-> layout,
                              enableBleed |-> enableBleed,
                              left |-> XS[col + 1] + (IF pageCards[n].success THEN 0 ELSE PT),
                              top |-> YS[row + 1] + pageIndex * PT])]]

\* one Page element: the callback of pages.map; idx counts from 0
PageEl(pageCards, pageIndex, layout, enableBleed, XS, YS) ==
    [orientation |-> IF layout = "avery" THEN "landscape" ELSE "portrait",
     style |-> createStyles(layout).page,
     cards |-> [n \in 1..Len(pageCards) |->
                  LET idx == n - 1
                      row == idx \div 3
                      col == idx % 3
                  IN  CardEl([key |-> <<pageIndex, idx>>, card |-> pageCards[n], layout |-> layout,
                              enableBleed |-> enableBleed, left |-> XS[col + 1], top |-> YS[row + 1]])]]

\* CardsPDFDocument: the pages of the document; a layout other than
\* "avery" takes the self-cut branch, which passes enableBleed: false
CardsPDFDocument(cardList, layout, enableBleed) ==
    IF layout = "avery"
    THEN LET pages == Slices(cardList, 6)
         IN  [p \in 1..Len(pages) |->
                PageEl(pages[p], p - 1, layout, enableBleed,
                       <<averyLeft(0), averyLeft(1), averyLeft(2)>>, <<averyTop(0), averyTop(1)>>)]
    ELSE LET pages == Slices(cardList, 9)
         IN  [p \in 1..Len(pages) |->
                PageEl(pages[p], p - 1, layout, FALSE, selfCutGrid.XS, selfCutGrid.YS)]

(***************************************************************************)
(* The document of the earlier route of the same file (lines 68-438):      *)
(* CardComponent and the CardsPDFDocument that maps it.                    *)
(***************************************************************************)
\* the styles of the earlier createStyles that carry geometry; bleedSize is
\* 7.2 pt, the avery card 180 x 255.6 pt, the self-cut card 165 x 238 pt
createStylesEarlier(layout) ==
    LET cardWidth == 180 * PT
        cardHeight == (2556 * PT) \div 10
        bleedSize == (72 * PT) \div 10
    IN  [cardContainer |-> IF layout = "avery"
                           THEN [width |-> cardWidth, height |-> cardHeight, margin |-> 0]
                           ELSE [width |-> 165 * PT, height |-> 238 * PT, margin |-> 2 * PT],
         cardContainerWithBleed |->
            [width |-> cardWidth + bleedSize * 2, height |-> cardHeight + bleedSize * 2, margin |-> 0],
         cardContainerWithBleedSelfCut |->
            [width |-> 165 * PT + bleedSize, height |-> 238 * PT + bleedSize, margin |-> 2 * PT]]

\* a container the page lays out in its flow: it has a size and no position
Flow(style) ==
    [positioned |-> FALSE, left |-> 0, top |-> 0, width |-> style.width, height |-> style.height,
     margin |-> style.margin]

\* a container at an absolute position
Positioned(left, top, style) ==
    [positioned |-> TRUE, left |-> left, top |-> top, width |-> style.width, height |-> style.height,
     margin |-> style.margin]

\* CardComponent: the container of the card, and what fills it
CardComponent(params) ==
    LET styles == createStylesEarlier(params.layout)
        bleedSize == (72 * PT) \div 10
    IN  IF params.layout = "avery" /\ params.hasPosition
        THEN IF params.enableBleed
             THEN [key |-> params.key, card |-> params.card,
                   container |-> Positioned(params.left - bleedSize, params.top - bleedSize,
                                            styles.cardContainerWithBleed),
                   content |-> ContentOf(params.card)]
             ELSE [key |-> params.key, card |-> params.card,
                   container |-> Positioned(params.left, params.top, styles.cardContainer),
                   content |-> ContentOf(params.card)]
        ELSE IF params.enableBleed
             THEN [key |-> params.key, card |-> params.card,
                   container |-> Flow(styles.cardContainerWithBleedSelfCut),
                   content |-> ContentOf(params.card)]
             ELSE [key |-> params.key, card |-> params.card,
                   container |-> Flow(styles.cardContainer),
                   content |-> ContentOf(params.card)]

\* the earlier CardsPDFDocument: the avery slots are computed from
\* enableBleed, the self-cut cards get no position
CardsPDFDocumentEarlier(cardList, layout, enableBleed) ==
    LET cardsPerPage == IF layout = "avery" THEN 6 ELSE 9
        cardWidth == IF enableBleed THEN 178 * PT ELSE 180 * PT
        cardHeight == (2556 * PT) \div 10
        gapX == IF enableBleed THEN 70 * PT ELSE 72 * PT
        gapY == (288 * PT) \div 10
        cols == 3
        rows == 2
        pageWidth == 792 * PT
        pageHeight == 612 * PT
        totalWidth == cols * cardWidth + (cols - 1) * gapX
        totalHeight == rows * cardHeight + (rows - 1) * gapY
        startX == (pageWidth - totalWidth) \div 2
        startY == (pageHeight - totalHeight) \div 2
        pages == Slices(cardList, cardsPerPage)
    IN  [p \in 1..Len(pages) |->
            [orientation |-> IF layout = "avery" THEN "landscape" ELSE "portrait",
             cards |-> [n \in 1..Len(pages[p]) |->
                 LET cardIndex == n - 1
                     row == cardIndex \div cols
                     col == cardIndex % cols
                 IN  IF layout = "avery"
                     THEN CardComponent([key |-> <<p - 1, cardIndex>>, card |-> pages[p][n],
                                         layout |-> layout, hasPosition |-> TRUE,
                                         left |-> startX + col * (cardWidth + gapX),
                                         top |-> startY + row * (cardHeight + gapY),
                                         enableBleed |-> enableBleed])
                     ELSE CardComponent([key |-> <<p - 1, cardIndex>>, card |-> pages[p][n],
                                         layout |-> layout, hasPosition |-> FALSE,
                                         left |-> 0, top |-> 0,
                                         enableBleed |-> enableBleed])]]]

(***************************************************************************)
(* The page loop of the jsPDF variants of the route.                       *)
(***************************************************************************)
\* the pages after the loop has placed the instances from k on; a page is
\* the sequence of its placed cards; cols is 3 in both layouts
RECURSIVE PlaceFrom(_, _, _, _, _)
PlaceFrom(instances, k, pages, cardsOnCurrentPage, cardsPerPage) ==
    IF k > Len(instances) THEN pages
    ELSE LET added == IF cardsOnCurrentPage = 0 /\ k > 1 THEN Append(pages, <<>>) ELSE pages
             slot == [card |-> instances[k],
                      row |-> cardsOnCurrentPage \div 3,
                      col |-> cardsOnCurrentPage % 3]
             placed == [added EXCEPT ![Len(added)] = Append(@, slot)]
         IN  PlaceFrom(instances, k + 1, placed,
                       IF cardsOnCurrentPage + 1 = cardsPerPage THEN 0 ELSE cardsOnCurrentPage + 1,
                       cardsPerPage)

\* new jsPDF() holds one page; the loop adds the others
jsPdfPages(instances, layout) ==
    PlaceFrom(instances, 1, <<<<>>>>, 0, IF layout = "avery" THEN 6 ELSE 9)

\* the cell of the jsPDF route of src/api (unit "in"): margin 0.5 in on the
\* 8.5 x 11 in page, cardWidth = usableWidth / 3, cardHeight = usableHeight / 3
jsPdfCell(row, col) ==
    LET pageWidth == (85 * INCH) \div 10
        pageHeight == 11 * INCH
        margin == (5 * INCH) \div 10
        usableWidth == pageWidth - 2 * margin
        usableHeight == pageHeight - 2 * margin
        cardWidth == usableWidth \div 3
        cardHeight == usableHeight \div 3
    IN  [x |-> margin + col * cardWidth, y |-> margin + row * cardHeight,
         cardWidth |-> cardWidth, cardHeight |-> cardHeight]

(***************************************************************************)
(* State.                                                                  *)
(***************************************************************************)
VARIABLES
    text,            \* the argument of parseInput
    entries,         \* what parseInput returned for text
    rebuiltText,     \* the text rebuilt from entries
    reparsed,        \* what parseInput returned for rebuiltText
    stage,           \* "input", "parsed", "rebuilt", "reparsed"
    clock,           \* the last value Date.now() returned
    cards,           \* the page: the parsed list, the argument of the pending preview
    cardImages,      \* the page: the preview shown
    isLoadingPreview,
    previewPc,       \* "timer" (debounce pending), "fetching", "done"
    previewUnique,   \* uniqueCardArray of the preview run
    previewResults,  \* the settled lookups of the run, by position in previewUnique
    previewCalls,    \* the calls of fetchCardImage the run made
    postPc,          \* "idle", "fetching", "done"
    postBody,        \* the body of the request
    postCards,       \* cards of the request body
    postUnique,      \* uniqueCards of the request
    postImages,      \* the settled lookups of the request, by position in postUnique
    postCalls,       \* the calls of fetchCardImage the request made
    imageMap,
    processed,
    response,
    postLayout,      \* layout of the request body, or its default
    postBleed,       \* enableBleed of the request body, or its default
    postSilent,      \* the lookups of the request the lookup service never answers
    postOrder,       \* the lookups of the request in the order they settled
    docProps,        \* the argument of CardsPDFDocument
    docPages,        \* the pages CardsPDFDocument returned for docProps
    legacyPages,     \* the pages the jsPDF loop drew for docProps
    docStage,        \* "idle", "props", "rendered"
    twinProps,       \* the arguments of two calls of CardsPDFDocument
    twinPages,       \* what CardsPDFDocument returned for each
    twinEarlier,     \* what the earlier CardsPDFDocument returned for each
    twinDone,        \* the calls that have returned
    debounceTimer,   \* timeout of debounce: whether it is pending, and the argument it holds
    previewRuns,     \* the runs of the debounced function that started, in the order they started
    typed,           \* the number of calls of handleInputChange
    inputValue,      \* the editable page: the text of the textarea
    cardCount,       \* the editable page: the total it shows
    editingCard,     \* the id of the card whose edit box is open, or null
    editValue,       \* the text of the edit box
    pendingPreviews, \* the calls of handleInputChange that await their lookups
    inputChanges,    \* the number of calls of handleInputChange
    fetchOutcome,    \* what fetch and response.json() give to fetchCardImage
    fetched,         \* what the callback of the route made of fetchCardImage's result
    fetchedEarlier,  \* the same with fetchCardImage of the earlier route
    fetchStage       \* "idle", "called", and which routes returned

parseVars == <<text, entries, rebuiltText, reparsed, stage, clock>>
pageVars == <<cards, cardImages, isLoadingPreview, previewPc, previewUnique, previewResults, previewCalls>>
routeVars == <<postPc, postBody, postCards, postUnique, postImages, postCalls, imageMap, processed, response,
               postLayout, postBleed, postSilent, postOrder>>
docVars == <<docProps, docPages, legacyPages, docStage>>

fetchVars == <<fetchOutcome, fetched, fetchedEarlier, fetchStage>>
twinVars == <<twinProps, twinPages, twinEarlier, twinDone>>
typingVars == <<debounceTimer, previewRuns, typed>>
editorVars == <<inputValue, cardCount, editingCard, editValue, pendingPreviews, inputChanges>>
restVars == <<fetchVars, twinVars, typingVars, editorVars>>

vars == <<parseVars, pageVars, routeVars, docVars, restVars>>

\* a response: the status, the content type, the error of a JSON body (a
\* message is a one-element sequence), the pages of a PDF body
NoResponse == [status |-> 0, contentType |-> "none", error |-> Undefined, pdf |-> <<>>]
EmptyMap == [key \in {} |-> Null]

ParseIdle ==
    /\ text = <<>>
    /\ entries = <<>>
    /\ rebuiltText = <<>>
    /\ reparsed = <<>>
    /\ stage = "input"
    /\ clock = 0

\* the body before the request
NoBody ==
    [json |-> FALSE, hasCards |-> FALSE, cards |-> <<>>, hasLayout |-> FALSE, layout |-> "self-cut",
     hasBleed |-> FALSE, enableBleed |-> TRUE]

RouteIdle ==
    /\ postPc = "idle"
    /\ postBody = NoBody
    /\ postCards = <<>>
    /\ postUnique = <<>>
    /\ postImages = EmptyMap
    /\ postCalls = <<>>
    /\ imageMap = EmptyMap
    /\ processed = <<>>
    /\ response = NoResponse
    /\ postLayout = "self-cut"
    /\ postBleed = TRUE
    /\ postSilent = {}
    /\ postOrder = <<>>

NoProps == [cards |-> <<>>, layout |-> "self-cut", enableBleed |-> TRUE]

DocIdle ==
    /\ docProps = NoProps
    /\ docPages = <<>>
    /\ legacyPages = <<>>
    /\ docStage = "idle"

NoOutcome == [reply |-> "throws", cardData |-> [hasFaces |-> FALSE, card_faces |-> <<>>, image_uris |-> Undefined]]
NotFetched == [imageUrl |-> Undefined, success |-> FALSE]

FetchIdle ==
    /\ fetchOutcome = NoOutcome
    /\ fetched = NotFetched
    /\ fetchedEarlier = NotFetched
    /\ fetchStage = "idle"

TwinIdle ==
    /\ twinProps = <<NoProps, NoProps>>
    /\ twinPages = <<<<>>, <<>>>>
    /\ twinEarlier = <<<<>>, <<>>>>
    /\ twinDone = {}

NoTimer == [pending |-> FALSE, parsed |-> <<>>]

TypingIdle ==
    /\ debounceTimer = NoTimer
    /\ previewRuns = <<>>
    /\ typed = 0

EditorIdle ==
    /\ inputValue = <<>>
    /\ cardCount = 0
    /\ editingCard = Null
    /\ editValue = <<>>
    /\ pendingPreviews = <<>>
    /\ inputChanges = 0

RestIdle ==
    /\ FetchIdle
    /\ TwinIdle
    /\ TypingIdle
    /\ EditorIdle

PreviewIdle ==
    /\ cardImages = <<>>
    /\ isLoadingPreview = FALSE
    /\ previewUnique = <<>>
    /\ previewResults = EmptyMap
    /\ previewCalls = <<>>

(***************************************************************************)
(* The parser applied to a text, the text rebuilt, the parser applied      *)
(* again.                                                                  *)
(***************************************************************************)
InitParse ==
    /\ text \in Texts
    /\ entries = <<>>
    /\ rebuiltText = <<>>
    /\ reparsed = <<>>
    /\ stage = "input"
    /\ clock = 0
    /\ cards = <<>>
    /\ previewPc = "done"
    /\ PreviewIdle
    /\ RouteIdle
    /\ DocIdle
    /\ RestIdle

CallParseInput ==
    /\ stage = "input"
    /\ \E now \in clock..MaxNow :
        /\ entries' = parseInput(text, now)
        /\ clock' = now
    /\ stage' = "parsed"
    /\ UNCHANGED <<text, rebuiltText, reparsed, pageVars, routeVars, docVars, restVars>>

CallRebuild ==
    /\ stage = "parsed"
    /\ rebuiltText' = RebuildInput(entries)
    /\ stage' = "rebuilt"
    /\ UNCHANGED <<text, entries, reparsed, clock, pageVars, routeVars, docVars, restVars>>

CallParseRebuilt ==
    /\ stage = "rebuilt"
    /\ \E now \in clock..MaxNow :
        /\ reparsed' = parseInput(rebuiltText, now)
        /\ clock' = now
    /\ stage' = "reparsed"
    /\ UNCHANGED <<text, entries, rebuiltText, pageVars, routeVars, docVars, restVars>>

NextParse == CallParseInput \/ CallRebuild \/ CallParseRebuilt

SpecParse == InitParse /\ [][NextParse]_vars

(***************************************************************************)
(* The page after handleInputChange: the parsed list in cards, the         *)
(* debounce timer pending with that list; and the route, which answers     *)
(* the request the page sends for that list (handleGeneratePdf) or a       *)
(* request without cards.                                                  *)
(***************************************************************************)
Init ==
    /\ ParseIdle
    /\ \E t \in CardTexts : cards = parseInput(t, 0)
    /\ previewPc = "timer"
    /\ PreviewIdle
    /\ RouteIdle
    /\ DocIdle
    /\ RestIdle

\* the debounce timer fires: the preview run, up to await Promise.all
PreviewStart ==
    /\ previewPc = "timer"
    /\ \/ /\ Len(cards) > 0
          /\ isLoadingPreview' = TRUE
          /\ cardImages' = <<>>
          /\ previewUnique' = PreviewUniqueCards(cards)
          /\ previewCalls' = PreviewUniqueCards(cards)
          /\ previewPc' = "fetching"
       \/ /\ Len(cards) = 0
          /\ cardImages' = <<>>
          /\ previewPc' = "done"
          /\ UNCHANGED <<isLoadingPreview, previewUnique, previewCalls>>
    /\ UNCHANGED <<cards, previewResults, parseVars, routeVars, docVars, restVars>>

\* the result of the callback of uniqueCardArray.map for one card
PreviewResult(card, outcome) ==
    IF outcome = "timeout"
    THEN [key |-> PreviewKey(card), name |-> card.name, imageUrl |-> Null, error |-> <<"Failed to load">>]
    ELSE LET cardImage == PageFetchResult(card.name, card.setCode, outcome)
         IN  [key |-> PreviewKey(card), name |-> cardImage.name,
              imageUrl |-> cardImage.imageUrl, error |-> cardImage.error]

\* one lookup of the preview run settles
PreviewLookupSettles ==
    /\ previewPc = "fetching"
    /\ \E i \in (1..Len(previewUnique)) \ DOMAIN previewResults : \E outcome \in PreviewOutcomes :
        previewResults' = previewResults @@ (i :> PreviewResult(previewUnique[i], outcome))
    /\ UNCHANGED <<cards, cardImages, isLoadingPreview, previewPc, previewUnique, previewCalls,
                   parseVars, routeVars, docVars, restVars>>

\* Promise.all resolved: the rest of the preview run
PreviewFinish ==
    /\ previewPc = "fetching"
    /\ DOMAIN previewResults = 1..Len(previewUnique)
    /\ cardImages' = FullPreview(cards, PreviewImageMap(previewResults))
    /\ isLoadingPreview' = FALSE
    /\ previewPc' = "done"
    /\ UNCHANGED <<cards, previewUnique, previewResults, previewCalls, parseVars, routeVars, docVars, restVars>>

\* the bodies the route is sent: the body of handleGeneratePdf for either
\* layout; and from other callers a body with enableBleed: false and no
\* layout, a body without cards, and a body that is not JSON
PageBodies ==
    {[json |-> TRUE, hasCards |-> TRUE, cards |-> cards, hasLayout |-> TRUE, layout |-> l,
      hasBleed |-> FALSE, enableBleed |-> TRUE] : l \in Layouts}

OtherBodies ==
    {[json |-> TRUE, hasCards |-> TRUE, cards |-> cards, hasLayout |-> FALSE, layout |-> "self-cut",
      hasBleed |-> TRUE, enableBleed |-> FALSE],
     [json |-> TRUE, hasCards |-> FALSE, cards |-> <<>>, hasLayout |-> FALSE, layout |-> "self-cut",
      hasBleed |-> FALSE, enableBleed |-> TRUE],
     [json |-> FALSE, hasCards |-> FALSE, cards |-> <<>>, hasLayout |-> FALSE, layout |-> "self-cut",
      hasBleed |-> FALSE, enableBleed |-> TRUE]}

Bodies == PageBodies \cup OtherBodies

\* an error answer sent as a PDF
ServerErrorAsPdf ==
    [status |-> 500, contentType |-> "application/pdf", error |-> <<"Failed to generate PDF">>, pdf |-> <<>>]

\* the answer of the catch block
ServerError ==
    [status |-> 500, contentType |-> "application/json", error |-> <<"Failed to generate PDF">>, pdf |-> <<>>]

\* a validation that lets an empty list pass
NoCardsOnlyMissing(body) == ~body.hasCards

\* !cards || cards.length === 0
NoCards(body) == ~body.hasCards \/ Len(body.cards) = 0

\* a map that starts the lookup of the first card only
DispatchFirstOnly(uniqueCards) == SubSeq(uniqueCards, 1, 1)

\* the calls of fetchCardImage uniqueCards.map makes before it returns:
\* one per card, each started before any is awaited
Dispatch(uniqueCards) == uniqueCards

\* POST, up to await Promise.all
PostStart ==
    /\ postPc = "idle"
    /\ \E body \in Bodies :
        /\ postBody' = body
        /\ \/ /\ ~body.json
              /\ response' = ServerError
              /\ postPc' = "done"
              /\ UNCHANGED <<postCards, postLayout, postBleed, postUnique, postCalls>>
           \/ /\ body.json
              /\ postCards' = body.cards
              /\ postLayout' = IF body.hasLayout THEN body.layout ELSE "self-cut"
              /\ postBleed' = IF body.hasBleed THEN body.enableBleed ELSE TRUE
              /\ \/ /\ NoCards(body)
                    /\ response' = [status |-> 400, contentType |-> "application/json",
                                    error |-> <<"No cards provided">>, pdf |-> <<>>]
                    /\ postPc' = "done"
                    /\ UNCHANGED <<postUnique, postCalls>>
                 \/ /\ ~NoCards(body)
                    /\ postUnique' = UniqueCards(body.cards)
                    /\ postCalls' = Dispatch(UniqueCards(body.cards))
                    /\ postPc' = "fetching"
                    /\ UNCHANGED response
    /\ UNCHANGED <<postImages, imageMap, processed, postSilent, postOrder, parseVars, pageVars, docVars, restVars>>

\* a callback that reads the image from a variable the lookups share: every
\* lookup that settles after the first gets the image of the first
RouteResultSharedImage(c, reply) ==
    LET own == RouteFetchResult(c.name, c.setCode, reply)
        imageUrl == IF postOrder # <<>> /\ own # Null
                    THEN ImageOf(postUnique[postOrder[1]].name, postUnique[postOrder[1]].setCode)
                    ELSE own
    IN  [key |-> CardKey(c), imageUrl |-> imageUrl, success |-> imageUrl # Null,
         name |-> c.name, setCode |-> c.setCode]

\* the result of the callback of uniqueCards.map for one card
RouteResult(c, reply) ==
    LET imageUrl == RouteFetchResult(c.name, c.setCode, reply)
    IN  [key |-> CardKey(c), imageUrl |-> imageUrl, success |-> imageUrl # Null,
         name |-> c.name, setCode |-> c.setCode]

\* the lookups of the request that have not settled
PostPending == (1..Len(postUnique)) \ DOMAIN postImages

\* the lookup service never answers one lookup of the request: the fetch of
\* fetchCardImage has no timeout, so the lookup stays pending
PostUpstreamSilent ==
    /\ postPc = "fetching"
    /\ \E i \in PostPending \ postSilent : postSilent' = postSilent \cup {i}
    /\ UNCHANGED <<postPc, postBody, postCards, postUnique, postImages, postCalls, imageMap, processed,
                   response, postLayout, postBleed, postOrder, parseVars, pageVars, docVars, restVars>>

\* one lookup of the request settles
PostLookupSettles ==
    /\ postPc = "fetching"
    /\ \E i \in PostPending \ postSilent : \E reply \in Replies :
        /\ postImages' = postImages @@ (i :> RouteResult(postUnique[i], reply))
        /\ postOrder' = Append(postOrder, i)
    /\ UNCHANGED <<postPc, postBody, postCards, postUnique, postCalls, imageMap, processed, response,
                   postLayout, postBleed, postSilent, parseVars, pageVars, docVars, restVars>>

\* a handler that does not wait for the lookups
PromiseAllResolvedAtOnce == TRUE

\* await Promise.all(...) returns: every lookup of the request has settled
PromiseAllResolved == PostPending = {}

\* Promise.all resolved: the rest of POST; the document renders or
\* rendering throws
PostFinish ==
    /\ postPc = "fetching"
    /\ PromiseAllResolved
    /\ imageMap' = RouteImageMap(postImages)
    /\ processed' = Expand(postCards, RouteImageMap(postImages))
    /\ \/ response' = [status |-> 200, contentType |-> "application/pdf", error |-> Undefined,
                       pdf |-> CardsPDFDocument(Expand(postCards, RouteImageMap(postImages)),
                                                postLayout, postBleed)]
       \/ response' = ServerError
    /\ postPc' = "done"
    /\ UNCHANGED <<postBody, postCards, postUnique, postImages, postCalls, postLayout, postBleed,
                   postSilent, postOrder, parseVars, pageVars, docVars, restVars>>

Next ==
    \/ PreviewStart
    \/ PreviewLookupSettles
    \/ PreviewFinish
    \/ PostStart
    \/ PostUpstreamSilent
    \/ PostLookupSettles
    \/ PostFinish

Spec == Init /\ [][Next]_vars

\* What the code schedules: a pending debounce timer fires; a lookup of the
\* preview settles, by its answer or by the 5 s timers of fetchCardImage
\* and of the race; a lookup of the route that the lookup service answers
\* settles; the code after a resolved Promise.all runs.  Nothing in the
\* route ends a lookup the service does not answer.
Fairness ==
    /\ WF_vars(PreviewStart)
    /\ WF_vars(PreviewLookupSettles)
    /\ WF_vars(PreviewFinish)
    /\ WF_vars(PostLookupSettles)
    /\ WF_vars(PostFinish)

\* the page with a list of up to MaxLiveCards lines
InitLive ==
    /\ ParseIdle
    /\ \E n \in 0..MaxLiveCards : \E ls \in CardLineLists(n) : cards = parseInput(Join(ls, <<"\n">>), 0)
    /\ previewPc = "timer"
    /\ PreviewIdle
    /\ RouteIdle
    /\ DocIdle
    /\ RestIdle

SpecLive == InitLive /\ [][Next]_vars /\ Fairness

(***************************************************************************)
(* CardsPDFDocument applied to a list of card instances, a layout and      *)
(* enableBleed.                                                            *)
(***************************************************************************)
\* instance k of a list: every instance with its image, or every second
\* one a failed lookup with a set code
InstanceOf(k, mixed) ==
    IF mixed /\ k % 2 = 0
    THEN [name |-> ToStr(k), imageUrl |-> Null, setCode |-> <<"A">>, success |-> FALSE]
    ELSE [name |-> ToStr(k), imageUrl |-> ImageOf(ToStr(k), Undefined), setCode |-> Undefined,
          success |-> TRUE]

InstanceLists == {[k \in 1..n |-> InstanceOf(k, mixed)] : n \in 0..MaxInstances, mixed \in BOOLEAN}

InitDocument ==
    /\ ParseIdle
    /\ cards = <<>>
    /\ previewPc = "done"
    /\ PreviewIdle
    /\ RouteIdle
    /\ docProps \in [cards : InstanceLists, layout : Layouts, enableBleed : BOOLEAN]
    /\ docPages = <<>>
    /\ legacyPages = <<>>
    /\ docStage = "props"
    /\ RestIdle

CallCardsPDFDocument ==
    /\ docStage = "props"
    /\ docPages' = CardsPDFDocument(docProps.cards, docProps.layout, docProps.enableBleed)
    /\ legacyPages' = jsPdfPages(docProps.cards, docProps.layout)
    /\ docStage' = "rendered"
    /\ UNCHANGED <<docProps, parseVars, pageVars, routeVars, restVars>>

NextDocument == CallCardsPDFDocument

SpecDocument == InitDocument /\ [][NextDocument]_vars

(***************************************************************************)
(* CardsPDFDocument called twice, with two lists of card instances, two    *)
(* layouts and two values of enableBleed; the calls share nothing.         *)
(***************************************************************************)
TwinLists == {[k \in 1..n |-> InstanceOf(k, mixed)] : n \in 0..MaxTwinInstances, mixed \in BOOLEAN}

TwinPropsSet == [cards : TwinLists, layout : Layouts, enableBleed : BOOLEAN]

InitTwin ==
    /\ ParseIdle
    /\ cards = <<>>
    /\ previewPc = "done"
    /\ PreviewIdle
    /\ RouteIdle
    /\ DocIdle
    /\ FetchIdle
    /\ twinProps \in TwinPropsSet \X TwinPropsSet
    /\ twinPages = <<<<>>, <<>>>>
    /\ twinEarlier = <<<<>>, <<>>>>
    /\ twinDone = {}
    /\ TypingIdle
    /\ EditorIdle

CallCardsPDFDocumentOfTwin ==
    /\ \E k \in {1, 2} \ twinDone :
        /\ twinPages' = [twinPages EXCEPT ![k] =
                CardsPDFDocument(twinProps[k].cards, twinProps[k].layout, twinProps[k].enableBleed)]
        /\ twinEarlier' = [twinEarlier EXCEPT ![k] =
                CardsPDFDocumentEarlier(twinProps[k].cards, twinProps[k].layout, twinProps[k].enableBleed)]
        /\ twinDone' = twinDone \cup {k}
    /\ UNCHANGED <<twinProps, parseVars, pageVars, routeVars, docVars, fetchVars, typingVars, editorVars>>

NextTwin == CallCardsPDFDocumentOfTwin

SpecTwin == InitTwin /\ [][NextTwin]_vars

(***************************************************************************)
(* The page while the user types: handleInputChange parses the text and    *)
(* calls the debounced preview; debounce clears the pending timeout and    *)
(* sets a new one; a timeout that fires starts a run of the preview, which *)
(* awaits its lookups and then sets cardImages.  A run that has started is *)
(* not cancelled by anything.                                              *)
(***************************************************************************)
\* the texts the user types: nothing, one card, two copies of another card
TypedTexts ==
    {<<>>,
     <<"1", " ", "a">>,
     <<"2", " ", "a", "a", " ", "[", "A", "]", " ", "7">>}

handleInputChange ==
    /\ typed < MaxTyped
    /\ \E value \in TypedTexts :
        /\ cards' = parseInput(value, 0)
        /\ debounceTimer' = [pending |-> TRUE, parsed |-> parseInput(value, 0)]
    /\ typed' = typed + 1
    /\ UNCHANGED <<cardImages, isLoadingPreview, previewPc, previewUnique, previewResults, previewCalls,
                   previewRuns, parseVars, routeVars, docVars, fetchVars, twinVars, editorVars>>

\* the timeout of debounce fires: func(...args) runs up to await Promise.all
DebounceTimerFires ==
    /\ debounceTimer.pending
    /\ debounceTimer' = NoTimer
    /\ cardImages' = <<>>
    /\ IF Len(debounceTimer.parsed) > 0
       THEN /\ isLoadingPreview' = TRUE
            /\ previewRuns' = Append(previewRuns,
                    [parsed |-> debounceTimer.parsed,
                     uniqueCardArray |-> PreviewUniqueCards(debounceTimer.parsed),
                     imageResults |-> EmptyMap,
                     pc |-> "fetching"])
       ELSE UNCHANGED <<isLoadingPreview, previewRuns>>
    /\ UNCHANGED <<cards, previewPc, previewUnique, previewResults, previewCalls, typed,
                   parseVars, routeVars, docVars, fetchVars, twinVars, editorVars>>

\* one lookup of one run settles
RunLookupSettles ==
    /\ \E r \in 1..Len(previewRuns) :
        /\ previewRuns[r].pc = "fetching"
        /\ \E i \in (1..Len(previewRuns[r].uniqueCardArray)) \ DOMAIN previewRuns[r].imageResults :
           \E outcome \in PreviewOutcomes :
            previewRuns' = [previewRuns EXCEPT ![r].imageResults =
                @ @@ (i :> PreviewResult(previewRuns[r].uniqueCardArray[i], outcome))]
    /\ UNCHANGED <<pageVars, debounceTimer, typed, parseVars, routeVars, docVars, fetchVars, twinVars, editorVars>>

\* Promise.all of one run resolved: the rest of the run
RunFinishes ==
    /\ \E r \in 1..Len(previewRuns) :
        /\ previewRuns[r].pc = "fetching"
        /\ DOMAIN previewRuns[r].imageResults = 1..Len(previewRuns[r].uniqueCardArray)
        /\ cardImages' = FullPreview(previewRuns[r].parsed, PreviewImageMap(previewRuns[r].imageResults))
        /\ isLoadingPreview' = FALSE
        /\ previewRuns' = [previewRuns EXCEPT ![r].pc = "done"]
    /\ UNCHANGED <<cards, previewPc, previewUnique, previewResults, previewCalls, debounceTimer, typed,
                   parseVars, routeVars, docVars, fetchVars, twinVars, editorVars>>

InitTyping ==
    /\ ParseIdle
    /\ cards = <<>>
    /\ previewPc = "done"
    /\ PreviewIdle
    /\ RouteIdle
    /\ DocIdle
    /\ RestIdle

NextTyping == handleInputChange \/ DebounceTimerFires \/ RunLookupSettles \/ RunFinishes

SpecTyping == InitTyping /\ [][NextTyping]_vars

(***************************************************************************)
(* The page with the editable card list: the textarea, the remove and the  *)
(* edit buttons of the cards, the edit box with its save and cancel        *)
(* buttons.                                                                *)
(***************************************************************************)
\* the texts typed into the textarea
EditorTexts ==
    {<<>>,
     <<"1", " ", "a">>,
     <<"2", " ", "b", " ", "[", "A", "]", " ", "7", "\n", "0", " ", "c", "\n", "1", " ", "a">>}

\* the texts typed into the edit box
EditBoxTexts ==
    {<<"3", " ", "b">>,
     <<"0", " ", "a">>,
     <<"1", " ", " ">>,
     <<"a">>}

\* the card whose edit box is open is in the list
EditBoxOpen == \E k \in 1..Len(cards) : cards[k].id = editingCard

\* the lookups of the preview: up to 3 per card, up to 9 in all
RECURSIVE ExpandedCards(_)
ExpandedCards(cardList) ==
    IF cardList = <<>> THEN <<>>
    ELSE Copies([name |-> cardList[1].name, setCode |-> cardList[1].setCode], Min({cardList[1].quantity, 3}))
            \o ExpandedCards(Tail(cardList))

\* handleInputChange up to its first await
EditorHandleInputChange ==
    /\ inputChanges < MaxInputChanges
    /\ inputChanges' = inputChanges + 1
    /\ \E value \in EditorTexts :
        LET parsed == parseInputOfEditor(value, 0)
        IN  /\ inputValue' = value
            /\ cards' = parsed
            /\ cardCount' = Total(parsed)
            /\ IF Len(parsed) > 0 /\ Len(parsed) <= 20
               THEN /\ isLoadingPreview' = TRUE
                    /\ pendingPreviews' = Append(pendingPreviews, parsed)
                    /\ UNCHANGED cardImages
               ELSE /\ cardImages' = <<>>
                    /\ UNCHANGED <<isLoadingPreview, pendingPreviews>>
    /\ UNCHANGED <<editingCard, editValue, previewPc, previewUnique, previewResults, previewCalls,
                   parseVars, routeVars, docVars, fetchVars, twinVars, typingVars>>

\* the rest of a call of handleInputChange: its lookups, one after the
\* other, all answered alike by the lookup service
EditorPreviewLoaded ==
    /\ \E r \in 1..Len(pendingPreviews) : \E reply \in Replies :
        LET shown == SubSeq(ExpandedCards(pendingPreviews[r]), 1,
                            Min({9, Len(ExpandedCards(pendingPreviews[r]))}))
        IN  /\ cardImages' = [k \in 1..Len(shown) |-> PageFetchResult(shown[k].name, shown[k].setCode, reply)]
            /\ isLoadingPreview' = FALSE
            /\ pendingPreviews' = SubSeq(pendingPreviews, 1, r - 1)
                                    \o SubSeq(pendingPreviews, r + 1, Len(pendingPreviews))
    /\ UNCHANGED <<cards, inputValue, cardCount, editingCard, editValue, inputChanges,
                   previewPc, previewUnique, previewResults, previewCalls,
                   parseVars, routeVars, docVars, fetchVars, twinVars, typingVars>>

removeCard ==
    /\ \E k \in 1..Len(cards) :
        LET updatedCards == WithoutId(cards, cards[k].id)
        IN  /\ cards' = updatedCards
            /\ inputValue' = RebuildInput(updatedCards)
            /\ cardCount' = Total(updatedCards)
    /\ UNCHANGED <<editingCard, editValue, pendingPreviews, inputChanges, cardImages, isLoadingPreview,
                   previewPc, previewUnique, previewResults, previewCalls,
                   parseVars, routeVars, docVars, fetchVars, twinVars, typingVars>>

startEditCard ==
    /\ \E k \in 1..Len(cards) :
        /\ editingCard' = cards[k].id
        /\ editValue' = RebuildLine(cards[k])
    /\ UNCHANGED <<pageVars, inputValue, cardCount, pendingPreviews, inputChanges,
                   parseVars, routeVars, docVars, fetchVars, twinVars, typingVars>>

\* onChange of the edit box
setEditValue ==
    /\ EditBoxOpen
    /\ \E value \in EditBoxTexts : editValue' = value
    /\ UNCHANGED <<pageVars, inputValue, cardCount, editingCard, pendingPreviews, inputChanges,
                   parseVars, routeVars, docVars, fetchVars, twinVars, typingVars>>

saveEditCard ==
    /\ EditBoxOpen
    /\ LET match == MatchLine(editValue)
           updatedCards == WithEdit(cards, editingCard, match)
       IN  IF match.ok
           THEN /\ cards' = updatedCards
                /\ inputValue' = RebuildInput(updatedCards)
                /\ cardCount' = Total(updatedCards)
           ELSE UNCHANGED <<cards, inputValue, cardCount>>
    /\ editingCard' = Null
    /\ editValue' = <<>>
    /\ UNCHANGED <<pendingPreviews, inputChanges, cardImages, isLoadingPreview,
                   previewPc, previewUnique, previewResults, previewCalls,
                   parseVars, routeVars, docVars, fetchVars, twinVars, typingVars>>

cancelEditCard ==
    /\ EditBoxOpen
    /\ editingCard' = Null
    /\ editValue' = <<>>
    /\ UNCHANGED <<pageVars, inputValue, cardCount, pendingPreviews, inputChanges,
                   parseVars, routeVars, docVars, fetchVars, twinVars, typingVars>>

InitEditor ==
    /\ ParseIdle
    /\ cards = <<>>
    /\ previewPc = "done"
    /\ PreviewIdle
    /\ RouteIdle
    /\ DocIdle
    /\ RestIdle

NextEditor ==
    \/ EditorHandleInputChange
    \/ EditorPreviewLoaded
    \/ removeCard
    \/ startEditCard
    \/ setEditValue
    \/ saveEditCard
    \/ cancelEditCard

SpecEditor == InitEditor /\ [][NextEditor]_vars

(***************************************************************************)
(* The loop "Expand by quantity" of the route applied to a card list and   *)
(* to an image map that holds the results of some of its unique cards.     *)
(***************************************************************************)
\* the image maps of a card list: for every set of its unique cards, the
\* results the callback of the route returns for them
ImageMapsOf(cardList) ==
    LET uniqueCards == UniqueCards(cardList)
    IN  {RouteImageMap([i \in looked |->
                RouteResult(uniqueCards[i], IF i \in found THEN "image" ELSE "not ok")]) :
            looked \in SUBSET (1..Len(uniqueCards)), found \in SUBSET (1..Len(uniqueCards))}

InitExpand ==
    /\ ParseIdle
    /\ cards = <<>>
    /\ previewPc = "done"
    /\ PreviewIdle
    /\ postPc = "expanding"
    /\ postBody = NoBody
    /\ \E t \in CardTexts :
        /\ postCards = parseInput(t, 0)
        /\ postUnique = UniqueCards(parseInput(t, 0))
        /\ imageMap \in ImageMapsOf(parseInput(t, 0))
    /\ postImages = EmptyMap
    /\ postCalls = <<>>
    /\ processed = <<>>
    /\ response = NoResponse
    /\ postLayout = "self-cut"
    /\ postBleed = TRUE
    /\ postSilent = {}
    /\ postOrder = <<>>
    /\ DocIdle
    /\ RestIdle

ExpandByQuantity ==
    /\ postPc = "expanding"
    /\ processed' = Expand(postCards, imageMap)
    /\ postPc' = "expanded"
    /\ UNCHANGED <<postBody, postCards, postUnique, postImages, postCalls, imageMap, response,
                   postLayout, postBleed, postSilent, postOrder, parseVars, pageVars, docVars, restVars>>

NextExpand == ExpandByQuantity

SpecExpand == InitExpand /\ [][NextExpand]_vars

(***************************************************************************)
(* fetchCardImage applied to what the lookup service answers, in the       *)
(* route and in the earlier route of the same file.                        *)
(***************************************************************************)
InitFetch ==
    /\ ParseIdle
    /\ cards = <<>>
    /\ previewPc = "done"
    /\ PreviewIdle
    /\ RouteIdle
    /\ DocIdle
    /\ fetchOutcome \in FetchOutcomes
    /\ fetched = NotFetched
    /\ fetchedEarlier = NotFetched
    /\ fetchStage = "called"
    /\ TwinIdle
    /\ TypingIdle
    /\ EditorIdle

CallFetchCardImage ==
    /\ fetchStage \in {"called", "earlier"}
    /\ fetched' = Resolved(fetchCardImage(fetchOutcome))
    /\ fetchStage' = IF fetchStage = "called" THEN "route" ELSE "both"
    /\ UNCHANGED <<fetchOutcome, fetchedEarlier, parseVars, pageVars, routeVars, docVars, twinVars, typingVars, editorVars>>

CallFetchCardImageEarlier ==
    /\ fetchStage \in {"called", "route"}
    /\ fetchedEarlier' = Resolved(fetchCardImageEarlier(fetchOutcome))
    /\ fetchStage' = IF fetchStage = "called" THEN "earlier" ELSE "both"
    /\ UNCHANGED <<fetchOutcome, fetched, parseVars, pageVars, routeVars, docVars, twinVars, typingVars, editorVars>>

NextFetch == CallFetchCardImage \/ CallFetchCardImageEarlier

SpecFetch == InitFetch /\ [][NextFetch]_vars

(***************************************************************************)
(* Vocabulary of the claims about parseInput.                              *)
(***************************************************************************)
Core(e) == [quantity |-> e.quantity, name |-> e.name, setCode |-> e.setCode, cardNumber |-> e.cardNumber]
CoreList(es) == [k \in 1..Len(es) |-> Core(es[k])]

RECURSIVE Flatten(_)
Flatten(ss) == IF ss = <<>> THEN <<>> ELSE ss[1] \o Flatten(Tail(ss))

Parsed == stage # "input"
TextLines == split(text)
OneLine == Len(TextLines) = 1

Contains(s, c) == \E i \in 1..Len(s) : s[i] = c
Trimmed(s) == s # <<>> /\ ~IsSpace(s[1]) /\ ~IsSpace(s[Len(s)])

\* the line is "<n> <name>": digits, one blank, a trimmed non-empty name
FirstBlank(l) == Min({k \in 1..Len(l) : l[k] = " "})
SimpleLine(l) ==
    /\ Contains(l, " ")
    /\ FirstBlank(l) > 1
    /\ AllDigits(l, 1, FirstBlank(l) - 1)
    /\ parseInt(SubSeq(l, 1, FirstBlank(l) - 1)) > 0
    /\ Trimmed(SubSeq(l, FirstBlank(l) + 1, Len(l)))
SimpleQuantity(l) == parseInt(SubSeq(l, 1, FirstBlank(l) - 1))
SimpleName(l) == SubSeq(l, FirstBlank(l) + 1, Len(l))

\* s ends in white space followed by a bare integer
IntegerStart(s) == Min({i \in 1..(Len(s) + 1) : AllDigits(s, i, Len(s))})
EndsInInteger(s) ==
    /\ IntegerStart(s) <= Len(s)
    /\ IntegerStart(s) > 1
    /\ IsSpace(s[IntegerStart(s) - 1])

\* s ends in white space followed by a bracketed set code
BracketStarts(s) ==
    {b \in 2..(Len(s) - 2) :
        /\ s[b] = "["
        /\ s[Len(s)] = "]"
        /\ AllSetCode(s, b + 1, Len(s) - 1)
        /\ IsSpace(s[b - 1])}
EndsInSetCode(s) == BracketStarts(s) # {}

\* an F that starts at a word boundary and is followed by white space
HasFoilMarker(s) ==
    \E i \in 1..(Len(s) - 1) :
        s[i] = "F" /\ IsSpace(s[i + 1]) /\ (i = 1 \/ ~IsWordChar(s[i - 1]))

\* a name the normalisation and the optional groups leave alone
PlainName(n) ==
    /\ Trimmed(n)
    /\ AllDots(n, 1, Len(n))
    /\ ~HasFoilMarker(n)
    /\ ~Contains(n, "(")
    /\ ~EndsInInteger(n)
    /\ ~EndsInSetCode(n)

BareEntry(l) ==
    [quantity |-> SimpleQuantity(l), name |-> SimpleName(l),
     setCode |-> Undefined, cardNumber |-> Undefined]

(***************************************************************************)
(* C1. For every line "<n> <name>", n a positive integer and name          *)
(* non-empty, parseInput yields exactly one entry, with quantity n, name   *)
(* name and no set code and no card number.                                *)
(***************************************************************************)
\* C1 as stated, for every non-empty name
C1_EveryNameOneBareEntry ==
    (Parsed /\ \A k \in 1..Len(TextLines) : SimpleLine(TextLines[k]))
        => CoreList(entries) = [k \in 1..Len(TextLines) |-> BareEntry(TextLines[k])]

\* C1 for plain names: the same, for every name that is plain: trimmed, without a
\* foil marker "F " and without a parenthesis, and that does not end in white
\* space followed by a bracketed set code or by a bare integer
C1_PlainNameOneBareEntry ==
    (Parsed /\ \A k \in 1..Len(TextLines) :
                  SimpleLine(TextLines[k]) /\ PlainName(SimpleName(TextLines[k])))
        => CoreList(entries) = [k \in 1..Len(TextLines) |-> BareEntry(TextLines[k])]

C1_Witness ==
    /\ stage = "parsed"
    /\ Len(TextLines) = 2
    /\ \A k \in 1..2 : SimpleLine(TextLines[k]) /\ PlainName(SimpleName(TextLines[k]))
    /\ Len(entries) = 2

(***************************************************************************)
(* C2. parseInput returns for every text; the entries come in the order    *)
(* of their lines; a blank or malformed line adds no entry and does not    *)
(* keep any other line from being parsed: the result is the concatenation, *)
(* in line order, of what each line yields when parsed on its own.         *)
(***************************************************************************)
C2_LineByLineInOrder ==
    Parsed =>
        CoreList(entries) =
            CoreList(Flatten([k \in 1..Len(TextLines) |-> parseInput(TextLines[k], 0)]))

C2_Witness ==
    /\ stage = "parsed"
    /\ Len(TextLines) = 2
    /\ trim(TextLines[1]) # <<>>
    /\ parseInput(TextLines[1], 0) = <<>>
    /\ Len(entries) = 1

(***************************************************************************)
(* C3. A line whose leading quantity is <= 0 or whose name is empty after  *)
(* trimming yields no entry; every entry has quantity > 0 and a non-empty  *)
(* trimmed name.                                                           *)
(***************************************************************************)
\* the trimmed line starts with an integer (a sign allowed) that is <= 0 and
\* ends the line or is followed by white space
DigitRunEnd(l, from) == Min({e \in from..(Len(l) + 1) : e = Len(l) + 1 \/ ~IsDigit(l[e])})
LeadingNonPositive(l) ==
    LET from == IF l # <<>> /\ l[1] = "-" THEN 2 ELSE 1
        e == DigitRunEnd(l, from)
    IN  /\ e > from
        /\ e = Len(l) + 1 \/ IsSpace(l[e])
        /\ from = 2 \/ parseInt(SubSeq(l, from, e - 1)) = 0

\* the trimmed line is a quantity and nothing else
NoName(l) == l # <<>> /\ AllDigits(l, 1, Len(l))

RejectedLine(l) == LeadingNonPositive(trim(l)) \/ NoName(trim(l))

C3_OnlyPositiveNamedEntries ==
    Parsed =>
        /\ \A k \in 1..Len(entries) : entries[k].quantity > 0 /\ Trimmed(entries[k].name)
        /\ Len(entries) <= Cardinality({k \in 1..Len(TextLines) : ~RejectedLine(TextLines[k])})

C3_Witness ==
    /\ stage = "parsed"
    /\ Len(TextLines) = 2
    /\ LeadingNonPositive(trim(TextLines[1]))
    /\ ~NoName(trim(TextLines[1]))
    /\ Len(entries) = 1

(***************************************************************************)
(* C4. "n name (XYZ)" yields the same entry as "n name [XYZ]".             *)
(***************************************************************************)
\* the line is "n name" followed by a blank and a code between open and close
CodeOpen(l, open) == Max({p \in 0..Len(l) : p = 0 \/ l[p] = open})
CodedLine(l, open, close) ==
    /\ Len(l) >= 4
    /\ l[Len(l)] = close
    /\ CodeOpen(l, open) >= 3
    /\ CodeOpen(l, open) + 1 <= Len(l) - 1
    /\ AllSetCode(l, CodeOpen(l, open) + 1, Len(l) - 1)
    /\ l[CodeOpen(l, open) - 1] = " "
    /\ SimpleLine(SubSeq(l, 1, CodeOpen(l, open) - 2))
    /\ PlainName(SimpleName(SubSeq(l, 1, CodeOpen(l, open) - 2)))

CodedEntry(l, open) ==
    [quantity |-> SimpleQuantity(l),
     name |-> SimpleName(SubSeq(l, 1, CodeOpen(l, open) - 2)),
     setCode |-> toUpperCase(SubSeq(l, CodeOpen(l, open) + 1, Len(l) - 1)),
     cardNumber |-> Undefined]

C4_ParenSameAsBracket ==
    /\ (Parsed /\ OneLine /\ CodedLine(text, "[", "]")) => CoreList(entries) = <<CodedEntry(text, "[")>>
    /\ (Parsed /\ OneLine /\ CodedLine(text, "(", ")")) => CoreList(entries) = <<CodedEntry(text, "(")>>

(***************************************************************************)
(* C5. A bare integer k at the end of a line, after white space, is always *)
(* the card number and never part of the name.                             *)
(***************************************************************************)
TrailingInteger(l) == SubSeq(l, IntegerStart(l), Len(l))

\* C5 as stated, for every line that ends in white space and an integer
C5_TrailingIntegerAlwaysNumber ==
    (Parsed /\ OneLine /\ EndsInInteger(trim(text)))
        => \A k \in 1..Len(entries) : entries[k].cardNumber = TrailingInteger(trim(text))

\* the line is "q name k": a positive quantity, white space, a non-empty
\* name X, white space, a bare integer; no foil marker, no parenthesis
QuantityEnd(l) == DigitRunEnd(l, 1)
NameStart(l) == Min({i \in QuantityEnd(l)..(Len(l) + 1) : i = Len(l) + 1 \/ ~IsSpace(l[i])})
NameStop(l) == Max({i \in 0..(IntegerStart(l) - 1) : i = 0 \/ ~IsSpace(l[i])})
NamedNumberedLine(l) ==
    /\ EndsInInteger(l)
    /\ AllDots(l, 1, Len(l))
    /\ ~HasFoilMarker(l)
    /\ ~Contains(l, "(")
    /\ QuantityEnd(l) > 1
    /\ parseInt(SubSeq(l, 1, QuantityEnd(l) - 1)) > 0
    /\ NameStart(l) > QuantityEnd(l)
    /\ NameStart(l) <= NameStop(l)
MiddleOf(l) == SubSeq(l, NameStart(l), NameStop(l))

\* X is "name [SET]" with a non-empty name
NameWithSetCode(x) == EndsInSetCode(x) /\ trim(SubSeq(x, 1, Max(BracketStarts(x)) - 1)) # <<>>

ExpectedNumbered(l) ==
    LET x == MiddleOf(l)
        b == Max(BracketStarts(x))
    IN  [quantity |-> parseInt(SubSeq(l, 1, QuantityEnd(l) - 1)),
         name |-> IF NameWithSetCode(x) THEN trim(SubSeq(x, 1, b - 1)) ELSE x,
         setCode |-> IF NameWithSetCode(x) THEN toUpperCase(SubSeq(x, b + 1, Len(x) - 1)) ELSE Undefined,
         cardNumber |-> TrailingInteger(l)]

\* C5 for named lines: in a line "q name k" or "q name [SET] k" with a non-empty
\* name, k is the card number and the name is name (and the set code SET)
C5_NumberAfterNameIsNumber ==
    (Parsed /\ OneLine /\ NamedNumberedLine(trim(text)))
        => CoreList(entries) = <<ExpectedNumbered(trim(text))>>

C5_Witness ==
    /\ stage = "parsed"
    /\ OneLine
    /\ NamedNumberedLine(trim(text))
    /\ NameWithSetCode(MiddleOf(trim(text)))
    /\ Len(entries) = 1
    /\ entries[1].setCode # Undefined
    /\ entries[1].cardNumber # Undefined

(***************************************************************************)
(* C6. parseInput removes every foil marker that is a whole token "F"      *)
(* followed by white space, and nothing else, before it matches the line.  *)
(***************************************************************************)
\* a token F: at the start of the line or after white space, before white space
FoilTokenAt(s, i) ==
    /\ i + 1 <= Len(s)
    /\ s[i] = "F"
    /\ i = 1 \/ IsSpace(s[i - 1])
    /\ IsSpace(s[i + 1])

RECURSIVE RemoveFoilTokensFrom(_, _)
RemoveFoilTokensFrom(s, i) ==
    IF i > Len(s) THEN <<>>
    ELSE IF FoilTokenAt(s, i)
         THEN RemoveFoilTokensFrom(s, Min({j \in (i + 2)..(Len(s) + 1) : j = Len(s) + 1 \/ ~IsSpace(s[j])}))
    ELSE <<s[i]>> \o RemoveFoilTokensFrom(s, i + 1)

ExpectedOfLine(cleanLine) ==
    IF MatchLine(cleanLine).ok THEN EntryOfMatch(MatchLine(cleanLine), 0, 0) ELSE <<>>

C6_OnlyFoilTokensRemoved ==
    (Parsed /\ OneLine /\ ~Contains(text, "("))
        => CoreList(entries) = CoreList(ExpectedOfLine(RemoveFoilTokensFrom(trim(text), 1)))

Dispatched == postPc # "idle" /\ Len(postCards) > 0

\* the route answered a request with a PDF
Answered == postPc = "done" /\ response.status = 200

\* the preview run dispatched its lookups
PreviewDispatched == previewPc # "timer" /\ Len(cards) > 0

\* the (lowercased name, set code) pair of a card
PairOf(c) == <<toLowerCase(c.name), c.setCode>>

Pairs(cardList) == {PairOf(cardList[k]) : k \in 1..Len(cardList)}

\* no two calls of a list of calls have the same key
OncePerKey(calls) ==
    \A i, j \in 1..Len(calls) : i # j => CardKey(calls[i]) # CardKey(calls[j])

\* two cards with names equal ignoring case and set codes equal ignoring
\* case, or both without set code
SameCard(c1, c2) ==
    /\ toLowerCase(c1.name) = toLowerCase(c2.name)
    /\ \/ c1.setCode = Undefined /\ c2.setCode = Undefined
       \/ /\ c1.setCode # Undefined
          /\ c2.setCode # Undefined
          /\ toLowerCase(c1.setCode) = toLowerCase(c2.setCode)

\* entries a request can hold, in either case of the name and of the set code
KeyProbes ==
    [name : CardNameParts, setCode : {Undefined, <<"A">>, <<"a">>},
     cardNumber : {Undefined, <<"7">>}, quantity : 1..MaxQty]

(***************************************************************************)
(* C8. The number of calls of fetchCardImage the route makes for a         *)
(* request equals the number of distinct (lowercased name, set code)       *)
(* pairs in the card list of the request.                                  *)
(***************************************************************************)
C8_CallsEqualDistinctPairs ==
    Dispatched => Len(postCalls) = Cardinality(Pairs(postCards))

(***************************************************************************)
(* C9. Within one request and within one preview run, fetchCardImage is    *)
(* called at most once per deduplication key.                              *)
(***************************************************************************)
C9_AtMostOneCallPerKey ==
    /\ Dispatched => OncePerKey(postCalls)
    /\ PreviewDispatched => OncePerKey(previewCalls)

C9_Witness ==
    /\ Answered
    /\ previewPc = "done"
    /\ Len(postCards) = 2
    /\ postCards[2].quantity > 1
    /\ CardKey(postCards[1]) = CardKey(postCards[2])
    /\ Len(postCalls) = 1
    /\ Len(previewCalls) = 1

(***************************************************************************)
(* C10. Two entries with names equal ignoring case and set codes equal     *)
(* ignoring case (or both without set code) have the same deduplication    *)
(* key, whatever their cardNumber and quantity, and every copy of both is  *)
(* rendered with the same image and the same success flag.                 *)
(***************************************************************************)
KeyProbesAgree == \A c1, c2 \in KeyProbes : SameCard(c1, c2) => CardKey(c1) = CardKey(c2)

C10_SameCardSameKeySameImage ==
    /\ KeyProbesAgree
    /\ \A i, j \in 1..Len(cards) : SameCard(cards[i], cards[j]) => CardKey(cards[i]) = CardKey(cards[j])
    /\ Answered =>
        \A i, j \in 1..Len(processed) :
            SameCard(processed[i], processed[j]) =>
                /\ processed[i].imageUrl = processed[j].imageUrl
                /\ processed[i].success = processed[j].success

C10_Witness ==
    /\ Answered
    /\ Len(postCards) = 2
    /\ postCards[1].name # postCards[2].name
    /\ postCards[1].cardNumber # postCards[2].cardNumber
    /\ postCards[1].quantity # postCards[2].quantity
    /\ SameCard(postCards[1], postCards[2])
    /\ Len(processed) = postCards[1].quantity + postCards[2].quantity
    /\ processed[1].name # processed[Len(processed)].name
    /\ processed[1].success

(***************************************************************************)
(* Vocabulary of the claims about the composition of a request.            *)
(***************************************************************************)
\* the route composed the instances of a request with cards
Composed == postPc = "done" /\ Len(postCards) > 0

RECURSIVE SumQuantities(_)
SumQuantities(cardList) ==
    IF cardList = <<>> THEN 0 ELSE cardList[1].quantity + SumQuantities(Tail(cardList))

\* the number of instances that precede those of entry i
Offset(cardList, i) == SumQuantities(SubSeq(cardList, 1, i - 1))

\* the run-length grouping of a sequence of instances: the (name, setCode)
\* of every run of instances of one entry, given the lengths of the runs
RunHeads(instances, cardList) ==
    [i \in 1..Len(cardList) |->
        [name |-> instances[Offset(cardList, i) + 1].name,
         setCode |-> instances[Offset(cardList, i) + 1].setCode]]

(***************************************************************************)
(* C11. The instance sequence the route builds holds, for each entry of    *)
(* the request in its order, quantity consecutive copies of the entry      *)
(* (same name and setCode); its length is the sum of the quantities, and   *)
(* grouping it by runs of quantity gives back the entries in their order.  *)
(***************************************************************************)
C11_ExpansionKeepsOrder ==
    Composed =>
        /\ Len(processed) = SumQuantities(postCards)
        /\ \A i \in 1..Len(postCards) : \A n \in 1..postCards[i].quantity :
            /\ processed[Offset(postCards, i) + n].name = postCards[i].name
            /\ processed[Offset(postCards, i) + n].setCode = postCards[i].setCode
        /\ RunHeads(processed, postCards)
             = [i \in 1..Len(postCards) |-> [name |-> postCards[i].name, setCode |-> postCards[i].setCode]]

C11_Witness ==
    /\ Composed
    /\ Len(postCards) = 2
    /\ postCards[1].quantity = MaxQty
    /\ postCards[2].quantity = 1
    /\ postCards[1].name # postCards[2].name
    /\ postCards[1].setCode # postCards[2].setCode
    /\ Len(processed) = MaxQty + 1
    /\ processed[MaxQty].name = postCards[1].name
    /\ processed[MaxQty + 1].name = postCards[2].name

(***************************************************************************)
(* Vocabulary of the claims about the document.                            *)
(***************************************************************************)
Rendered == docStage = "rendered"

\* the capacity of a page under a layout
Capacity(layout) == IF layout = "avery" THEN 6 ELSE 9

CeilDiv(n, c) == (n + c - 1) \div c

\* the sizes of the pages of N instances under capacity C: every page but
\* the last holds C, the last holds N mod C, or C when that is 0
PageSizesOK(sizes, n, c) ==
    /\ Len(sizes) = CeilDiv(n, c)
    /\ \A p \in 1..(Len(sizes) - 1) : sizes[p] = c
    /\ Len(sizes) > 0 => sizes[Len(sizes)] = (IF n % c = 0 THEN c ELSE n % c)

(***************************************************************************)
(* C12. N instances under a layout of capacity C (9 self-cut, 6 avery)     *)
(* make ceil(N/C) pages in the order of the instances: instance k (from    *)
(* 0) is on page floor(k/C) in slot k mod C, every page but the last holds *)
(* C instances and the last holds N mod C, or C when N is a multiple of C. *)
(* The jsPDF loop does the same for N >= 1.                                *)
(***************************************************************************)
C12_Pagination ==
    Rendered =>
        LET n == Len(docProps.cards)
            c == Capacity(docProps.layout)
        IN  /\ PageSizesOK([p \in 1..Len(docPages) |-> Len(docPages[p].cards)], n, c)
            /\ \A k \in 0..(n - 1) :
                LET el == docPages[(k \div c) + 1].cards[(k % c) + 1]
                IN  /\ el.card = docProps.cards[k + 1]
                    /\ el.key = <<k \div c, k % c>>
            /\ n >= 1 =>
                /\ PageSizesOK([p \in 1..Len(legacyPages) |-> Len(legacyPages[p])], n, c)
                /\ \A k \in 0..(n - 1) :
                    LET slot == legacyPages[(k \div c) + 1][(k % c) + 1]
                    IN  /\ slot.card = docProps.cards[k + 1]
                        /\ 3 * slot.row + slot.col = k % c

C12_Witness ==
    /\ Rendered
    /\ docProps.layout = "avery"
    /\ Len(docProps.cards) = 14
    /\ Len(docPages) = 3
    /\ Len(docPages[3].cards) = 2
    /\ Len(legacyPages) = 3

\* the cards of the elements of a document, page after page
CardsOf(pages) == Flatten([p \in 1..Len(pages) |-> [n \in 1..Len(pages[p].cards) |-> pages[p].cards[n].card]])

\* the contents of the elements of a document, page after page
ContentsOf(pages) ==
    Flatten([p \in 1..Len(pages) |-> [n \in 1..Len(pages[p].cards) |-> pages[p].cards[n].content]])

(***************************************************************************)
(* C13. Whatever lookups of a request fail, the route composes every       *)
(* instance and answers 200 with a document that holds them all: the       *)
(* instances of a failed key are placeholders (imageUrl null, success      *)
(* false), those of the other keys carry the image of their lookup.  (The  *)
(* only other answer is that of the catch block when rendering throws.)    *)
(***************************************************************************)
C13_FailedLookupsBecomePlaceholders ==
    Composed =>
        /\ Len(processed) = SumQuantities(postCards)
        /\ \A i \in 1..Len(postUnique) : \A j \in 1..Len(processed) :
            CardKey(processed[j]) = CardKey(postUnique[i]) =>
                IF postImages[i].success
                THEN /\ processed[j].imageUrl = ImageOf(postUnique[i].name, postUnique[i].setCode)
                     /\ processed[j].success
                ELSE /\ processed[j].imageUrl = Null
                     /\ ~processed[j].success
        /\ response.status = 200 \/ response = ServerError
        /\ response.status = 200 =>
            /\ CardsOf(response.pdf) = processed
            /\ \A j \in 1..Len(processed) :
                /\ ContentsOf(response.pdf)[j].kind = (IF processed[j].success THEN "image" ELSE "placeholder")
                /\ ContentsOf(response.pdf)[j].src = processed[j].imageUrl

C13_Witness ==
    /\ Composed
    /\ response.status = 200
    /\ Len(postUnique) = 2
    /\ ~postImages[1].success
    /\ postImages[2].success
    /\ Len(processed) = MaxQty + 1
    /\ ~processed[1].success
    /\ processed[Len(processed)].success
    /\ ContentsOf(response.pdf)[1].kind = "placeholder"

(***************************************************************************)
(* C14. A request whose body has no field cards or an empty list of cards  *)
(* is answered with status 400 and the message "No cards provided"; the    *)
(* route calls fetchCardImage for none of it and makes no document.        *)
(***************************************************************************)
C14_NoCardsIsRejected ==
    (postPc # "idle" /\ postBody.json /\ (~postBody.hasCards \/ postBody.cards = <<>>)) =>
        /\ postPc = "done"
        /\ response.status = 400
        /\ response.contentType = "application/json"
        /\ response.error = <<"No cards provided">>
        /\ response.pdf = <<>>
        /\ postCalls = <<>>
        /\ postImages = EmptyMap
        /\ processed = <<>>

C14_Witness ==
    /\ postPc = "done"
    /\ postBody.json
    /\ postBody.hasCards
    /\ postBody.cards = <<>>
    /\ response.status = 400

(***************************************************************************)
(* C15. A request gets one response and no second one: a complete PDF      *)
(* (status 200, application/pdf, the document of every instance) or an     *)
(* error (status 400 or 500, a JSON message), never a mix of both; when a  *)
(* step after the validation throws, the response is the 500 error and     *)
(* holds no PDF.                                                           *)
(***************************************************************************)
CompletePdf(r) ==
    /\ r.status = 200
    /\ r.contentType = "application/pdf"
    /\ r.error = Undefined
    /\ r.pdf = CardsPDFDocument(processed, postLayout, postBleed)
    /\ CardsOf(r.pdf) = processed
    /\ processed # <<>>

ErrorOnly(r) ==
    /\ r.status \in {400, 500}
    /\ r.contentType = "application/json"
    /\ r.error # Undefined
    /\ r.pdf = <<>>

OneKindOfResponse ==
    /\ postPc # "done" => response = NoResponse
    /\ postPc = "done" => (CompletePdf(response) \/ ErrorOnly(response))
    /\ (postPc = "done" /\ response.status = 400) => postUnique = <<>>

BleedMargin == (72 * PT) \div 10

Right(r) == r.left + r.width
Bottom(r) == r.top + r.height

BleedAroundMask(el) ==
    /\ el.bleed.drawn
    /\ el.mask.drawn
    /\ el.bleed.left = el.mask.left - BleedMargin
    /\ el.bleed.top = el.mask.top - BleedMargin
    /\ el.bleed.width = el.mask.width + 2 * BleedMargin
    /\ el.bleed.height = el.mask.height + 2 * BleedMargin
    /\ Right(el.bleed) = Right(el.mask) + BleedMargin
    /\ Bottom(el.bleed) = Bottom(el.mask) + BleedMargin

\* the element of slot (row, col) has its mask at the place of the slot
MaskInSlot(el, row, col) ==
    /\ el.mask.left = (54 * PT) + col * (252 * PT)
    /\ el.mask.top = (36 * PT) + row * (288 * PT)
    /\ el.mask.width = 180 * PT
    /\ el.mask.height = 252 * PT

C16_BleedAroundMask ==
    (Rendered /\ docProps.layout = "avery" /\ docProps.enableBleed) =>
        \A p \in 1..Len(docPages) : \A n \in 1..Len(docPages[p].cards) :
            /\ BleedAroundMask(docPages[p].cards[n])
            /\ MaskInSlot(docPages[p].cards[n], (n - 1) \div 3, (n - 1) % 3)
            /\ (n - 1) \div 3 \in 0..1

C16_Witness ==
    /\ Rendered
    /\ docProps.layout = "avery"
    /\ docProps.enableBleed
    /\ Len(docPages) >= 2
    /\ Len(docPages[1].cards) = 6
    /\ docPages[1].cards[6].bleed.drawn
    /\ docPages[1].cards[6].mask.left = 558 * PT
    /\ docPages[1].cards[6].mask.top = 324 * PT

(***************************************************************************)
(* C17. The composition of a request (the image map, the expansion into    *)
(* instances, the document) never begins before every lookup of the        *)
(* request has settled, with an image or with a failure: no instance is    *)
(* composed from a lookup that is still in flight.                         *)
(***************************************************************************)
EveryLookupSettled == DOMAIN postImages = 1..Len(postUnique)

ComposedFromSettled ==
    (processed # <<>> \/ imageMap # EmptyMap \/ response.status = 200) =>
        /\ EveryLookupSettled
        /\ \A j \in 1..Len(processed) :
            \E i \in DOMAIN postImages :
                /\ postImages[i].key = CardKey(processed[j])
                /\ postImages[i].imageUrl = processed[j].imageUrl
                /\ postImages[i].success = processed[j].success

C17_CompositionAfterAllLookups ==
    /\ []ComposedFromSettled
    /\ [][(processed' # processed \/ imageMap' # imageMap) => EveryLookupSettled]_vars

C17_Witness ==
    /\ Composed
    /\ Len(postUnique) = 2
    /\ postOrder = <<2, 1>>
    /\ postImages[1].success
    /\ ~postImages[2].success
    /\ Len(processed) = MaxQty + 1

(***************************************************************************)
(* C18. Every lookup finishes: when the lookup service never answers for   *)
(* a key, the lookup still resolves to a failure, so that the request and  *)
(* the preview run complete instead of waiting forever.                    *)
(***************************************************************************)
C18_EveryLookupFinishes ==
    /\ \A i \in 1..MaxLiveCards :
        (postPc = "fetching" /\ i \in 1..Len(postUnique)) ~> (i \in DOMAIN postImages)
    /\ (postPc = "fetching") ~> (postPc = "done")
    /\ \A i \in 1..MaxLiveCards :
        (previewPc = "fetching" /\ i \in 1..Len(previewUnique)) ~> (i \in DOMAIN previewResults)
    /\ (previewPc = "fetching") ~> (previewPc = "done")

\* the part of C18 about the preview run
PreviewCompletes ==
    /\ \A i \in 1..MaxLiveCards :
        (previewPc = "fetching" /\ i \in 1..Len(previewUnique)) ~> (i \in DOMAIN previewResults)
    /\ (previewPc = "fetching") ~> (previewPc = "done" /\ ~isLoadingPreview)

(***************************************************************************)
(* C19. The route starts the lookups of all unique keys as parallel tasks: *)
(* every lookup is started before the route waits for the completion of    *)
(* any, so the start of a lookup never depends on the completion of        *)
(* another.                                                                *)
(***************************************************************************)
AllStartedBeforeAnyCompletes ==
    (postPc = "fetching" \/ Composed) => postCalls = postUnique

C19_LookupsStartTogether ==
    /\ []AllStartedBeforeAnyCompletes
    /\ [][postCalls' # postCalls => (postPc = "idle" /\ postImages = EmptyMap /\ postImages' = EmptyMap)]_vars

\* both lookups started, the second settled while the first is in flight
C19_Witness ==
    /\ postPc = "fetching"
    /\ Len(postUnique) = 2
    /\ Len(postCalls) = 2
    /\ postOrder = <<2>>
    /\ DOMAIN postImages = {2}

(***************************************************************************)
(* C20. The lookups of a request have no ordering dependency: for a fixed  *)
(* request and fixed results of the lookups of its keys, the image map and *)
(* the instance sequence are the same in whatever order the lookups        *)
(* complete.                                                               *)
(***************************************************************************)
\* the image of the lookup of unique card i, given whether it succeeded
OwnImage(i) ==
    IF postImages[i].success THEN ImageOf(postUnique[i].name, postUnique[i].setCode) ELSE Null

\* the image map as a function of the request and of the results alone
MapOfResults ==
    [key \in {CardKey(postUnique[i]) : i \in 1..Len(postUnique)} |->
        LET i == CHOOSE k \in 1..Len(postUnique) : CardKey(postUnique[k]) = key
        IN  [imageUrl |-> OwnImage(i), success |-> postImages[i].success]]

C20_CompletionOrderIrrelevant ==
    Composed =>
        /\ imageMap = MapOfResults
        /\ processed = Expand(postCards, MapOfResults)
        /\ \A j \in 1..Len(processed) :
            processed[j].imageUrl \in {Null, ImageOf(postUnique[CHOOSE k \in 1..Len(postUnique) :
                                          CardKey(postUnique[k]) = CardKey(processed[j])].name,
                                        postUnique[CHOOSE k \in 1..Len(postUnique) :
                                          CardKey(postUnique[k]) = CardKey(processed[j])].setCode)}

\* both lookups succeeded, the second before the first
C20_Witness ==
    /\ Composed
    /\ Len(postUnique) = 2
    /\ postOrder = <<2, 1>>
    /\ postImages[1].success
    /\ postImages[2].success
    /\ processed[1].imageUrl # processed[Len(processed)].imageUrl

(***************************************************************************)
(* Vocabulary of the claims about the payload of the lookup service.       *)
(***************************************************************************)
\* the image the claim has fetchCardImage pick of a payload
PickedOf(cardData) ==
    IF FirstFaceHasImage(cardData) THEN cardData.card_faces[1]
    ELSE IF Truthy(cardData.image_uris) THEN cardData.image_uris
    ELSE Null

\* the resolution the claim has the route make of a payload
PickedResolution(cardData) ==
    [imageUrl |-> PickedOf(cardData), success |-> PickedOf(cardData) # Null]

RouteReturned == fetchStage \in {"route", "both"}
EarlierRouteReturned == fetchStage \in {"earlier", "both"}
PayloadReceived == fetchOutcome.reply = "ok"

\* the route of lines 1605-1622 picks the first face's image, then the flat one
RoutePicksFirstFace ==
    (RouteReturned /\ PayloadReceived) => fetched = PickedResolution(fetchOutcome.cardData)

(***************************************************************************)
(* C21. For a payload that lists faces whose first face has an image URL,  *)
(* fetchCardImage returns that URL and the card is resolved with           *)
(* success = true; without a first-face image it returns the flat image    *)
(* URL, and null when neither exists. Stated of both routes the claim      *)
(* names.                                                                  *)
(***************************************************************************)
C21_FirstFaceImageWins ==
    /\ RoutePicksFirstFace
    /\ (EarlierRouteReturned /\ PayloadReceived) =>
            fetchedEarlier = PickedResolution(fetchOutcome.cardData)

(***************************************************************************)
(* Vocabulary of the claims about the geometry of two documents.           *)
(***************************************************************************)
BothReturned == twinDone = {1, 2}

\* position and size of the card of a CardEl element
MaskGeometry(el) ==
    [left |-> el.mask.left, top |-> el.mask.top, width |-> el.mask.width, height |-> el.mask.height]

\* position and size of the container of a CardComponent element
ContainerGeometry(el) ==
    [positioned |-> el.container.positioned, left |-> el.container.left, top |-> el.container.top,
     width |-> el.container.width, height |-> el.container.height]

\* the slots (page, index) that both documents have
CommonSlots(docA, docB) ==
    {<<p, n>> \in (1..Len(docA)) \X (1..9) :
        p <= Len(docB) /\ n <= Len(docA[p].cards) /\ n <= Len(docB[p].cards)}

\* the two calls differ in enableBleed only, and are for the self-cut layout
SelfCutTwinsDifferingInBleed ==
    /\ BothReturned
    /\ twinProps[1].layout = "self-cut"
    /\ twinProps[2].layout = "self-cut"
    /\ twinProps[1].cards = twinProps[2].cards
    /\ twinProps[1].enableBleed
    /\ ~twinProps[2].enableBleed

\* the route of lines 1727-1782 draws the self-cut cards alike with and without bleed
SelfCutIgnoresBleed ==
    SelfCutTwinsDifferingInBleed =>
        /\ Len(twinPages[1]) = Len(twinPages[2])
        /\ \A slot \in CommonSlots(twinPages[1], twinPages[2]) :
            /\ MaskGeometry(twinPages[1][slot[1]].cards[slot[2]])
                = MaskGeometry(twinPages[2][slot[1]].cards[slot[2]])
            /\ ~twinPages[1][slot[1]].cards[slot[2]].bleed.drawn

(***************************************************************************)
(* C22. In the self-cut layout the geometry does not depend on the bleed   *)
(* flag: every slot of a page has the same position and the same size      *)
(* with enableBleed = true as with enableBleed = false. Stated of the      *)
(* CardsPDFDocument of lines 1727-1782 and of the CardComponent of lines   *)
(* 227-367, which the claim names.                                         *)
(***************************************************************************)
C22_SelfCutGeometryIgnoresBleed ==
    /\ SelfCutIgnoresBleed
    /\ SelfCutTwinsDifferingInBleed =>
         \A slot \in CommonSlots(twinEarlier[1], twinEarlier[2]) :
            ContainerGeometry(twinEarlier[1][slot[1]].cards[slot[2]])
                = ContainerGeometry(twinEarlier[2][slot[1]].cards[slot[2]])

(***************************************************************************)
(* C23. Slot coordinates are a function of the layout, the bleed flag and  *)
(* the index within the page: two documents built with the same layout and *)
(* the same bleed flag place the card at index i of any page at the same   *)
(* coordinates, whatever the names, the image URLs, the success flags and  *)
(* the page index are.                                                     *)
(***************************************************************************)
\* the rectangles of a CardEl element: the mask and the bleed rectangle
Rectangles(el) == <<el.mask, el.bleed>>

SameLayoutAndBleed ==
    /\ BothReturned
    /\ twinProps[1].layout = twinProps[2].layout
    /\ twinProps[1].enableBleed = twinProps[2].enableBleed

C23_SlotCoordinatesDependOnIndexOnly ==
    SameLayoutAndBleed =>
        \A p \in 1..Len(twinPages[1]) : \A q \in 1..Len(twinPages[2]) :
            \A n \in 1..Min({Len(twinPages[1][p].cards), Len(twinPages[2][q].cards)}) :
                Rectangles(twinPages[1][p].cards[n]) = Rectangles(twinPages[2][q].cards[n])

\* the second page of one document and the first of the other hold, at the
\* same index, a card with its image and a placeholder of another name
C23_Witness ==
    /\ SameLayoutAndBleed
    /\ twinProps[1].layout = "avery"
    /\ twinProps[1].enableBleed
    /\ Len(twinPages[1]) = 2
    /\ Len(twinPages[2]) = 1
    /\ Len(twinPages[1][2].cards) >= 2
    /\ Len(twinPages[2][1].cards) >= 2
    /\ twinPages[1][2].cards[2].content.kind = "image"
    /\ twinPages[2][1].cards[2].content.kind = "placeholder"
    /\ twinPages[1][2].cards[2].card.name # twinPages[2][1].cards[2].card.name

(***************************************************************************)
(* C24. In the avery layout the 3x2 block of 2.5 x 3.5 in slots is         *)
(* centered on the 11 x 8.5 in landscape page: slot (row, col) is at       *)
(* left = M_L + col*(CARD_W + GAP_X), top = M_T + row*(CARD_H + GAP_Y),    *)
(* the space left of column 0 equals the space right of column 2, and the  *)
(* space above row 0 equals the space below row 1.                         *)
(***************************************************************************)
\* an inch in the unit of the model, and lengths in quarters of an inch
Inch == 72 * PT
Quarters(n) == (n * Inch) \div 4

\* the slot of index n (from 1) of an avery page, by the formula of the claim
\* with M_L = 0.75, CARD_W = 2.5, GAP_X = 1.0, M_T = 0.5, CARD_H = 3.5, GAP_Y = 0.5 in
AverySlotByFormula(el, n) ==
    LET row == (n - 1) \div 3
        col == (n - 1) % 3
    IN  /\ el.mask.left = Quarters(3) + col * (Quarters(10) + Quarters(4))
        /\ el.mask.top = Quarters(2) + row * (Quarters(14) + Quarters(2))
        /\ el.mask.width = Quarters(10)
        /\ el.mask.height = Quarters(14)

\* the margins around the cards of a page: column 0 against column 2, row 0 against row 1
BlockCentered(page) ==
    /\ page.style.width = Quarters(44)
    /\ page.style.height = Quarters(34)
    /\ \A n, k \in 1..Len(page.cards) :
        /\ ((n - 1) % 3 = 0 /\ (k - 1) % 3 = 2) =>
              page.cards[n].mask.left = page.style.width - Right(page.cards[k].mask)
        /\ ((n - 1) \div 3 = 0 /\ (k - 1) \div 3 = 1) =>
              page.cards[n].mask.top = page.style.height - Bottom(page.cards[k].mask)

C24_AveryBlockCentered ==
    (Rendered /\ docProps.layout = "avery") =>
        \A p \in 1..Len(docPages) :
            /\ docPages[p].orientation = "landscape"
            /\ BlockCentered(docPages[p])
            /\ \A n \in 1..Len(docPages[p].cards) : AverySlotByFormula(docPages[p].cards[n], n)

\* a full avery page: 0.75 in left of column 0 and right of column 2, 0.5 in
\* above row 0 and below row 1
C24_Witness ==
    /\ Rendered
    /\ docProps.layout = "avery"
    /\ Len(docPages) >= 1
    /\ Len(docPages[1].cards) = 6
    /\ docPages[1].cards[1].mask.left = Quarters(3)
    /\ Right(docPages[1].cards[3].mask) = Quarters(44) - Quarters(3)
    /\ docPages[1].cards[1].mask.top = Quarters(2)
    /\ Bottom(docPages[1].cards[6].mask) = Quarters(34) - Quarters(2)

(***************************************************************************)
(* Vocabulary of the claim about the self-cut grid.                        *)
(***************************************************************************)
\* the cells of the jsPDF route fill the page less 0.5 in on every side
JsPdfCellsFillUsableArea ==
    (Rendered /\ docProps.layout = "self-cut") =>
        \A p \in 1..Len(legacyPages) : \A n \in 1..Len(legacyPages[p]) :
            LET slot == legacyPages[p][n]
                cell == jsPdfCell(slot.row, slot.col)
            IN  /\ 3 * cell.cardWidth = Quarters(34) - 2 * Quarters(2)
                /\ 3 * cell.cardHeight = Quarters(44) - 2 * Quarters(2)
                /\ cell.x = Quarters(2) + slot.col * cell.cardWidth
                /\ cell.y = Quarters(2) + slot.row * cell.cardHeight

\* the cells of a page start at margin + col * (usable width / 3) and
\* margin + row * (usable height / 3), for the margins the first cell has
\* on the left and on the top
CellsAtThirds(page) ==
    LET marginX == page.cards[1].mask.left
        marginY == page.cards[1].mask.top
    IN  \A n \in 1..Len(page.cards) :
            /\ 3 * (page.cards[n].mask.left - marginX) = ((n - 1) % 3) * (page.style.width - 2 * marginX)
            /\ 3 * (page.cards[n].mask.top - marginY) = ((n - 1) \div 3) * (page.style.height - 2 * marginY)

(***************************************************************************)
(* C25. In the self-cut layout each of the 9 cells is (usable width)/3     *)
(* wide and (usable height)/3 high, the usable area being the 8.5 x 11 in  *)
(* page less a fixed margin on every side, and cell (row, col) starts at   *)
(* x = margin + col*cellWidth, y = margin + row*cellHeight. Stated of the  *)
(* jsPDF route and of selfCutGrid, which the claim names.                  *)
(***************************************************************************)
C25_SelfCutCellsAreThirds ==
    /\ JsPdfCellsFillUsableArea
    /\ (Rendered /\ docProps.layout = "self-cut") =>
            \A p \in 1..Len(docPages) : CellsAtThirds(docPages[p])

(***************************************************************************)
(* C26. Every card instance is rendered with the lookup result of its own  *)
(* card: its image (or placeholder) is the result of resolving a (name,    *)
(* set code) pair equal, ignoring case, to the instance's own name and set *)
(* code; two entries that differ in name or in set code never share a      *)
(* resolved image. Stated of the route and of the preview of the page.     *)
(***************************************************************************)
\* the instance carries the result of a lookup of its own card
RenderedWithOwnLookup(instance, uniques, results) ==
    \E i \in 1..Len(uniques) :
        /\ SameCard(uniques[i], instance)
        /\ results[i].imageUrl = instance.imageUrl

\* two instances of different cards do not show the same image
NoSharedImage(instances) ==
    \A j, k \in 1..Len(instances) :
        (~SameCard(instances[j], instances[k]) /\ instances[j].imageUrl # Null) =>
            instances[j].imageUrl # instances[k].imageUrl

\* the preview shown for entry i of the list of the page
PreviewCopies(i) == SubSeq(cardImages, Offset(cards, i) + 1, Offset(cards, i) + cards[i].quantity)

C26_InstancesShowTheirOwnCard ==
    /\ Composed =>
        /\ \A j \in 1..Len(processed) : RenderedWithOwnLookup(processed[j], postUnique, postImages)
        /\ NoSharedImage(processed)
    /\ (previewPc = "done" /\ Len(cards) > 0) =>
        \A i \in 1..Len(cards) : \A j \in 1..Len(PreviewCopies(i)) :
            RenderedWithOwnLookup([name |-> cards[i].name, setCode |-> cards[i].setCode,
                                   imageUrl |-> PreviewCopies(i)[j].imageUrl],
                                  previewUnique, previewResults)

(***************************************************************************)
(* C27. After the user stops typing and every pending timer and lookup has *)
(* finished, the preview shown (cardImages) is the expansion of the most   *)
(* recent parsed input: a run started for an older input never overwrites  *)
(* the result of a newer one, and when the latest input parses to no cards *)
(* the preview ends up empty.                                              *)
(***************************************************************************)
\* no timeout is pending and no run is in flight
PreviewSettled ==
    /\ typed > 0
    /\ ~debounceTimer.pending
    /\ \A r \in 1..Len(previewRuns) : previewRuns[r].pc = "done"

\* cardImages holds, for every entry of the list and in its order, as many
\* previews as its quantity, each of a card of that name
ExpansionOf(images, cardList) ==
    /\ Len(images) = SumQuantities(cardList)
    /\ \A i \in 1..Len(cardList) :
        \A j \in (Offset(cardList, i) + 1)..(Offset(cardList, i) + cardList[i].quantity) :
            toLowerCase(images[j].name) = toLowerCase(cardList[i].name)

C27_PreviewShowsLatestInput ==
    PreviewSettled =>
        /\ ExpansionOf(cardImages, cards)
        /\ cards = <<>> => cardImages = <<>>

(***************************************************************************)
(* C28. Within a page no two card slots overlap and every slot lies        *)
(* entirely inside the page, in both layouts; in the avery layout with     *)
(* bleed the bleed rectangles are pairwise disjoint and inside the page    *)
(* as well.                                                                *)
(***************************************************************************)
Disjoint(r1, r2) ==
    \/ Right(r1) <= r2.left
    \/ Right(r2) <= r1.left
    \/ Bottom(r1) <= r2.top
    \/ Bottom(r2) <= r1.top

InsidePage(r, page) ==
    /\ r.left >= 0
    /\ r.top >= 0
    /\ Right(r) <= page.style.width
    /\ Bottom(r) <= page.style.height

SlotsApart(page) ==
    /\ \A n \in 1..Len(page.cards) :
        /\ page.cards[n].mask.drawn
        /\ page.cards[n].mask.width > 0
        /\ page.cards[n].mask.height > 0
        /\ InsidePage(page.cards[n].mask, page)
    /\ \A n, k \in 1..Len(page.cards) :
        n # k => Disjoint(page.cards[n].mask, page.cards[k].mask)

BleedsApart(page) ==
    /\ \A n \in 1..Len(page.cards) :
        /\ page.cards[n].bleed.drawn
        /\ InsidePage(page.cards[n].bleed, page)
    /\ \A n, k \in 1..Len(page.cards) :
        n # k => Disjoint(page.cards[n].bleed, page.cards[k].bleed)

C28_SlotsDisjointAndInsidePage ==
    Rendered =>
        \A p \in 1..Len(docPages) :
            /\ SlotsApart(docPages[p])
            /\ (docProps.layout = "avery" /\ docProps.enableBleed) => BleedsApart(docPages[p])

\* a full avery page with bleed after a full page, and the bleed rectangles
\* of two neighbours of its second row
C28_Witness ==
    /\ Rendered
    /\ docProps.layout = "avery"
    /\ docProps.enableBleed
    /\ Len(docPages) >= 2
    /\ Len(docPages[2].cards) = 6
    /\ Right(docPages[2].cards[4].bleed) < docPages[2].cards[5].bleed.left
    /\ Bottom(docPages[2].cards[2].bleed) < docPages[2].cards[5].bleed.top

(***************************************************************************)
(* C29. After any sequence of the operations of the editable page          *)
(* (handleInputChange, removeCard, startEditCard, the edit box,            *)
(* saveEditCard, cancelEditCard) every entry of cards, the list sent to    *)
(* the POST handler, has quantity > 0 and a non-empty name, and cardCount  *)
(* equals the sum of the quantities of the entries.                        *)
(***************************************************************************)
CardCountIsSum == cardCount = SumQuantities(cards)

C29_CardsStayValid ==
    /\ \A k \in 1..Len(cards) :
        /\ cards[k].quantity > 0
        /\ cards[k].name # <<>>
    /\ CardCountIsSum

(***************************************************************************)
(* C30. Every expanded instance has success = true exactly when its        *)
(* imageUrl is non-null; an entry whose key is absent from the image map   *)
(* is expanded into failure placeholders (imageUrl = null, success =       *)
(* false) and the expansion is complete nevertheless.                      *)
(***************************************************************************)
Expanded == postPc = "expanded"

\* the instances of entry i of the request
InstancesOf(i) == SubSeq(processed, Offset(postCards, i) + 1, Offset(postCards, i) + postCards[i].quantity)

KeyAbsent(i) == CardKey(postCards[i]) \notin DOMAIN imageMap

C30_SuccessIffImageAndAbsentKeysFail ==
    Expanded =>
        /\ Len(processed) = SumQuantities(postCards)
        /\ \A j \in 1..Len(processed) : processed[j].success <=> (processed[j].imageUrl # Null)
        /\ \A i \in 1..Len(postCards) :
            /\ Len(InstancesOf(i)) = postCards[i].quantity
            /\ \A j \in 1..Len(InstancesOf(i)) :
                /\ InstancesOf(i)[j].name = postCards[i].name
                /\ KeyAbsent(i) => (InstancesOf(i)[j].imageUrl = Null /\ ~InstancesOf(i)[j].success)

\* two entries, the key of the first in the map with its image, the key of
\* the second absent
C30_Witness ==
    /\ Expanded
    /\ Len(postCards) = 2
    /\ ~KeyAbsent(1)
    /\ KeyAbsent(2)
    /\ postCards[2].quantity = MaxQty
    /\ processed[1].success
    /\ processed[1].imageUrl # Null
    /\ ~processed[Len(processed)].success
    /\ processed[Len(processed)].imageUrl = Null

====
